---- MODULE Spec2Model ----
(***************************************************************************)
(* Model of the SQL fragment builders of express-jobly                     *)
(* (src/helpers/sql.js): sqlForPartialUpdate, sqlForCompanySearch with its *)
(* two rules _sqlForCompanySearchByName / _sqlForCompanySearchByNumEmps,   *)
(* and sqlForJobSearch.                                                    *)
(*                                                                         *)
(* JavaScript values are records [t, n, s] (type tag, numeric payload,     *)
(* string payload).  A JavaScript object is the sequence of its own        *)
(* enumerable entries [k, v] in insertion order.  SQL text and bind        *)
(* strings are TLA+ strings built with \o, numbers are rendered with       *)
(* ToString.  A call either returns or throws; both are an outcome record. *)
(***************************************************************************)
EXTENDS Integers, Sequences, FiniteSets, TLC

VARIABLES fn, dataToUpdate, jsToSql, queryParams, pc, result,
          frame, calls, jobs, users, request, out,
          argTerm, argConditions, argIdx, procs

vars == <<fn, dataToUpdate, jsToSql, queryParams, pc, result,
          frame, calls, jobs, users, request, out,
          argTerm, argConditions, argIdx, procs>>

\* the state of the builders' caller, and the state of the application
\* (job rows, the request being served, what came of it)
builderVars == <<dataToUpdate, jsToSql, queryParams, result, frame, calls>>
appVars == <<jobs, users, request, out>>
ruleVars == <<argTerm, argConditions, argIdx>>

(***************************************************************************)
(* Bounds.                                                                 *)
(***************************************************************************)
\* largest number used as a filter or field value
MaxNum == 2
\* largest number of fields in a dataToUpdate object
MaxFields == 2

(***************************************************************************)
(* JavaScript values.                                                      *)
(***************************************************************************)
Undefined == [t |-> "undefined", n |-> 0, s |-> ""]
Null == [t |-> "null", n |-> 0, s |-> ""]
Num(n) == [t |-> "number", n |-> n, s |-> ""]
Str(s) == [t |-> "string", n |-> 0, s |-> s]
Bool(b) == [t |-> "boolean", n |-> IF b THEN 1 ELSE 0, s |-> ""]

\* ToBoolean, as applied by the || operator
Truthy(v) ==
  CASE v.t = "undefined" -> FALSE
    [] v.t = "null" -> FALSE
    [] v.t = "number" -> v.n # 0
    [] v.t = "string" -> v.s # ""
    [] v.t = "boolean" -> v.n = 1

\* ToString, as applied by a template literal `${v}`
TemplateString(v) ==
  CASE v.t = "undefined" -> "undefined"
    [] v.t = "null" -> "null"
    [] v.t = "number" -> ToString(v.n)
    [] v.t = "string" -> v.s
    [] v.t = "boolean" -> IF v.n = 1 THEN "true" ELSE "false"

\* a > b for operands that are numbers or undefined (undefined converts to
\* NaN, and every comparison with NaN is false)
JsGreater(a, b) ==
  IF a.t = "number" /\ b.t = "number" THEN a.n > b.n ELSE FALSE

(***************************************************************************)
(* JavaScript objects: own entries in insertion order.                     *)
(***************************************************************************)
Entry(k, v) == [k |-> k, v |-> v]

HasKey(obj, k) == \E i \in 1..Len(obj) : obj[i].k = k

\* obj[k] / destructuring: the value of the entry, undefined when absent
Get(obj, k) ==
  IF HasKey(obj, k)
    THEN obj[CHOOSE i \in 1..Len(obj) : obj[i].k = k].v
    ELSE Undefined

ObjectKeys(obj) == [i \in 1..Len(obj) |-> obj[i].k]

ObjectValues(obj) == [i \in 1..Len(obj) |-> obj[i].v]

\* Array.prototype.join on an array of strings
RECURSIVE Join(_, _)
Join(arr, sep) ==
  IF Len(arr) = 0 THEN ""
  ELSE IF Len(arr) = 1 THEN arr[1]
  ELSE arr[1] \o sep \o Join(Tail(arr), sep)

(***************************************************************************)
(* Outcomes of a call.                                                     *)
(***************************************************************************)
NoError == [name |-> "", args |-> <<>>]

\* new BadRequestError(...args)
BadRequestError(args) == [name |-> "BadRequestError", args |-> args]

\* return { setCols | searchCols: text, values }
Return(text, values) ==
  [kind |-> "return", text |-> text, values |-> values, err |-> NoError]

Throw(e) == [kind |-> "throw", text |-> "", values |-> <<>>, err |-> e]

\* return { colsTemp, valuesTemp } of a predicate rule
ReturnTemp(colsTemp, valuesTemp) ==
  [kind |-> "return", colsTemp |-> colsTemp, valuesTemp |-> valuesTemp,
   err |-> NoError]

ThrowTemp(e) ==
  [kind |-> "throw", colsTemp |-> <<>>, valuesTemp |-> <<>>, err |-> e]

Pending == [kind |-> "pending", text |-> "", values |-> <<>>, err |-> NoError]

(***************************************************************************)
(* src/helpers/sql.js                                                      *)
(***************************************************************************)
\* variant: placeholders numbered from the 0-based array index
sqlForPartialUpdate_zeroBased(data, table) ==
  LET keys == ObjectKeys(data) IN
  IF Len(keys) = 0 THEN Throw(BadRequestError(<<"No data">>))
  ELSE
    LET colFor(colName) ==
          IF Truthy(Get(table, colName)) THEN Get(table, colName)
          ELSE Str(colName)
        cols == [i \in 1..Len(keys) |->
                   LET idx == i - 1 IN
                   "\"" \o TemplateString(colFor(keys[i])) \o "\"=$"
                        \o ToString(idx)]
    IN Return(Join(cols, ", "), ObjectValues(data))

\* variant: no check for an empty dataToUpdate
sqlForPartialUpdate_noEmptyCheck(data, table) ==
  LET keys == ObjectKeys(data)
      colFor(colName) ==
        IF Truthy(Get(table, colName)) THEN Get(table, colName)
        ELSE Str(colName)
      cols == [i \in 1..Len(keys) |->
                 LET idx == i - 1 IN
                 "\"" \o TemplateString(colFor(keys[i])) \o "\"=$"
                      \o ToString(idx + 1)]
  IN Return(Join(cols, ", "), ObjectValues(data))

\* variant: the table is consulted by key presence (colName in jsToSql)
sqlForPartialUpdate_byPresence(data, table) ==
  LET keys == ObjectKeys(data) IN
  IF Len(keys) = 0 THEN Throw(BadRequestError(<<"No data">>))
  ELSE
    LET colFor(colName) ==
          IF HasKey(table, colName) THEN Get(table, colName)
          ELSE Str(colName)
        cols == [i \in 1..Len(keys) |->
                   LET idx == i - 1 IN
                   "\"" \o TemplateString(colFor(keys[i])) \o "\"=$"
                        \o ToString(idx + 1)]
    IN Return(Join(cols, ", "), ObjectValues(data))

sqlForPartialUpdate(data, table) ==
  LET keys == ObjectKeys(data) IN
  IF Len(keys) = 0 THEN Throw(BadRequestError(<<"No data">>))
  ELSE
    LET colFor(colName) ==
          IF Truthy(Get(table, colName)) THEN Get(table, colName)
          ELSE Str(colName)
        cols == [i \in 1..Len(keys) |->
                   LET idx == i - 1 IN
                   "\"" \o TemplateString(colFor(keys[i])) \o "\"=$"
                        \o ToString(idx + 1)]
    IN Return(Join(cols, ", "), ObjectValues(data))

\* variant: the search term is spliced into the SQL text
_sqlForCompanySearchByName_inline(searchTerm, currentIdx) ==
  IF searchTerm = Undefined \/ searchTerm = Str("")
    THEN ThrowTemp(BadRequestError(<<>>))
  ELSE
    LET col == "name ILIKE '%" \o TemplateString(searchTerm) \o "%'"
    IN ReturnTemp(<<col>>, <<>>)

\* variant: only the empty string is refused, an undefined term is not
_sqlForCompanySearchByName_noTermCheck(searchTerm, currentIdx) ==
  IF searchTerm = Str("")
    THEN ThrowTemp(BadRequestError(<<>>))
  ELSE
    LET col == "name ILIKE $" \o ToString(currentIdx + 1)
        value == Str("%" \o TemplateString(searchTerm) \o "%")
    IN ReturnTemp(<<col>>, <<value>>)

_sqlForCompanySearchByName(searchTerm, currentIdx) ==
  IF searchTerm = Undefined \/ searchTerm = Str("")
    THEN ThrowTemp(BadRequestError(<<>>))
  ELSE
    LET col == "name ILIKE $" \o ToString(currentIdx + 1)
        value == Str("%" \o TemplateString(searchTerm) \o "%")
    IN ReturnTemp(<<col>>, <<value>>)

\* variant: the cursor is not advanced after the minimum fragment
_sqlForCompanySearchByNumEmps_noAdvance(conditions, currentIdx) ==
  LET minEmployees == Get(conditions, "minEmployees")
      maxEmployees == Get(conditions, "maxEmployees")
  IN
  IF minEmployees = Undefined /\ maxEmployees = Undefined
    THEN ThrowTemp(BadRequestError(<<>>))
  ELSE IF JsGreater(minEmployees, maxEmployees)
    THEN ThrowTemp(BadRequestError(
           <<"minEmployees cannot be larger than maxEmployees">>))
  ELSE
    LET cols1 == IF minEmployees # Undefined
                   THEN <<"num_employees >= $" \o ToString(currentIdx + 1)>>
                   ELSE <<>>
        vals1 == IF minEmployees # Undefined THEN <<minEmployees>> ELSE <<>>
        cols2 == IF maxEmployees # Undefined
                   THEN Append(cols1,
                               "num_employees <= $"
                                 \o ToString(currentIdx + 1))
                   ELSE cols1
        vals2 == IF maxEmployees # Undefined THEN Append(vals1, maxEmployees)
                 ELSE vals1
    IN ReturnTemp(cols2, vals2)

\* variant: no test for an inverted range
_sqlForCompanySearchByNumEmps_noRangeCheck(conditions, currentIdx) ==
  LET minEmployees == Get(conditions, "minEmployees")
      maxEmployees == Get(conditions, "maxEmployees")
  IN
  IF minEmployees = Undefined /\ maxEmployees = Undefined
    THEN ThrowTemp(BadRequestError(<<>>))
  ELSE
    LET cols1 == IF minEmployees # Undefined
                   THEN <<"num_employees >= $" \o ToString(currentIdx + 1)>>
                   ELSE <<>>
        vals1 == IF minEmployees # Undefined THEN <<minEmployees>> ELSE <<>>
        idx1 == IF minEmployees # Undefined THEN currentIdx + 1
                ELSE currentIdx
        cols2 == IF maxEmployees # Undefined
                   THEN Append(cols1,
                               "num_employees <= $" \o ToString(idx1 + 1))
                   ELSE cols1
        vals2 == IF maxEmployees # Undefined THEN Append(vals1, maxEmployees)
                 ELSE vals1
    IN ReturnTemp(cols2, vals2)

\* variant: the maximum fragment is emitted before the minimum fragment
_sqlForCompanySearchByNumEmps_maxFirst(conditions, currentIdx) ==
  LET minEmployees == Get(conditions, "minEmployees")
      maxEmployees == Get(conditions, "maxEmployees")
  IN
  IF minEmployees = Undefined /\ maxEmployees = Undefined
    THEN ThrowTemp(BadRequestError(<<>>))
  ELSE IF JsGreater(minEmployees, maxEmployees)
    THEN ThrowTemp(BadRequestError(
           <<"minEmployees cannot be larger than maxEmployees">>))
  ELSE
    LET cols1 == IF maxEmployees # Undefined
                   THEN <<"num_employees <= $" \o ToString(currentIdx + 1)>>
                   ELSE <<>>
        vals1 == IF maxEmployees # Undefined THEN <<maxEmployees>> ELSE <<>>
        idx1 == IF maxEmployees # Undefined THEN currentIdx + 1
                ELSE currentIdx
        cols2 == IF minEmployees # Undefined
                   THEN Append(cols1,
                               "num_employees >= $" \o ToString(idx1 + 1))
                   ELSE cols1
        vals2 == IF minEmployees # Undefined THEN Append(vals1, minEmployees)
                 ELSE vals1
    IN ReturnTemp(cols2, vals2)

\* variant: a bound is used when it is truthy, so 0 counts as absent
_sqlForCompanySearchByNumEmps_truthy(conditions, currentIdx) ==
  LET minEmployees == Get(conditions, "minEmployees")
      maxEmployees == Get(conditions, "maxEmployees")
  IN
  IF minEmployees = Undefined /\ maxEmployees = Undefined
    THEN ThrowTemp(BadRequestError(<<>>))
  ELSE IF JsGreater(minEmployees, maxEmployees)
    THEN ThrowTemp(BadRequestError(
           <<"minEmployees cannot be larger than maxEmployees">>))
  ELSE
    LET cols1 == IF Truthy(minEmployees)
                   THEN <<"num_employees >= $" \o ToString(currentIdx + 1)>>
                   ELSE <<>>
        vals1 == IF Truthy(minEmployees) THEN <<minEmployees>> ELSE <<>>
        idx1 == IF Truthy(minEmployees) THEN currentIdx + 1
                ELSE currentIdx
        cols2 == IF Truthy(maxEmployees)
                   THEN Append(cols1,
                               "num_employees <= $" \o ToString(idx1 + 1))
                   ELSE cols1
        vals2 == IF Truthy(maxEmployees) THEN Append(vals1, maxEmployees)
                 ELSE vals1
    IN ReturnTemp(cols2, vals2)

\* variant: the range is refused when min is greater than or equal to max
_sqlForCompanySearchByNumEmps_rejectsEqual(conditions, currentIdx) ==
  LET minEmployees == Get(conditions, "minEmployees")
      maxEmployees == Get(conditions, "maxEmployees")
  IN
  IF minEmployees = Undefined /\ maxEmployees = Undefined
    THEN ThrowTemp(BadRequestError(<<>>))
  ELSE IF JsGreater(minEmployees, maxEmployees)
            \/ (minEmployees.t = "number" /\ minEmployees = maxEmployees)
    THEN ThrowTemp(BadRequestError(
           <<"minEmployees cannot be larger than maxEmployees">>))
  ELSE
    LET cols1 == IF minEmployees # Undefined
                   THEN <<"num_employees >= $" \o ToString(currentIdx + 1)>>
                   ELSE <<>>
        vals1 == IF minEmployees # Undefined THEN <<minEmployees>> ELSE <<>>
        idx1 == IF minEmployees # Undefined THEN currentIdx + 1
                ELSE currentIdx
        cols2 == IF maxEmployees # Undefined
                   THEN Append(cols1,
                               "num_employees <= $" \o ToString(idx1 + 1))
                   ELSE cols1
        vals2 == IF maxEmployees # Undefined THEN Append(vals1, maxEmployees)
                 ELSE vals1
    IN ReturnTemp(cols2, vals2)

_sqlForCompanySearchByNumEmps(conditions, currentIdx) ==
  LET minEmployees == Get(conditions, "minEmployees")
      maxEmployees == Get(conditions, "maxEmployees")
  IN
  IF minEmployees = Undefined /\ maxEmployees = Undefined
    THEN ThrowTemp(BadRequestError(<<>>))
  ELSE IF JsGreater(minEmployees, maxEmployees)
    THEN ThrowTemp(BadRequestError(
           <<"minEmployees cannot be larger than maxEmployees">>))
  ELSE
    LET cols1 == IF minEmployees # Undefined
                   THEN <<"num_employees >= $" \o ToString(currentIdx + 1)>>
                   ELSE <<>>
        vals1 == IF minEmployees # Undefined THEN <<minEmployees>> ELSE <<>>
        idx1 == IF minEmployees # Undefined THEN currentIdx + 1
                ELSE currentIdx
        cols2 == IF maxEmployees # Undefined
                   THEN Append(cols1,
                               "num_employees <= $" \o ToString(idx1 + 1))
                   ELSE cols1
        vals2 == IF maxEmployees # Undefined THEN Append(vals1, maxEmployees)
                 ELSE vals1
    IN ReturnTemp(cols2, vals2)

\* variant: the range rule is invoked whether or not a bound is present
sqlForCompanySearch_alwaysRange(params) ==
  LET minEmployees == Get(params, "minEmployees")
      maxEmployees == Get(params, "maxEmployees")
      nameLike == Get(params, "nameLike")
      cols0 == <<>>
      values0 == <<>>
      byName == IF nameLike # Undefined
                  THEN _sqlForCompanySearchByName(nameLike, Len(values0))
                  ELSE ReturnTemp(<<>>, <<>>)
  IN
  IF byName.kind = "throw" THEN Throw(byName.err)
  ELSE
    LET cols1 == cols0 \o byName.colsTemp
        values1 == values0 \o byName.valuesTemp
        byNumEmps ==
          _sqlForCompanySearchByNumEmps(
            <<Entry("minEmployees", minEmployees),
              Entry("maxEmployees", maxEmployees)>>,
            Len(values1))
    IN
    IF byNumEmps.kind = "throw" THEN Throw(byNumEmps.err)
    ELSE Return(Join(cols1 \o byNumEmps.colsTemp, " AND "),
                values1 \o byNumEmps.valuesTemp)

sqlForCompanySearch(params) ==
  LET minEmployees == Get(params, "minEmployees")
      maxEmployees == Get(params, "maxEmployees")
      nameLike == Get(params, "nameLike")
      cols0 == <<>>
      values0 == <<>>
      byName == IF nameLike # Undefined
                  THEN _sqlForCompanySearchByName(nameLike, Len(values0))
                  ELSE ReturnTemp(<<>>, <<>>)
  IN
  IF byName.kind = "throw" THEN Throw(byName.err)
  ELSE
    LET cols1 == cols0 \o byName.colsTemp
        values1 == values0 \o byName.valuesTemp
        byNumEmps ==
          IF minEmployees # Undefined \/ maxEmployees # Undefined
            THEN _sqlForCompanySearchByNumEmps(
                   <<Entry("minEmployees", minEmployees),
                     Entry("maxEmployees", maxEmployees)>>,
                   Len(values1))
            ELSE ReturnTemp(<<>>, <<>>)
    IN
    IF byNumEmps.kind = "throw" THEN Throw(byNumEmps.err)
    ELSE Return(Join(cols1 \o byNumEmps.colsTemp, " AND "),
                values1 \o byNumEmps.valuesTemp)

\* variant: the dimensions are visited in the key order of the input
RECURSIVE JobSearchInKeyOrder(_, _, _, _)
JobSearchInKeyOrder(params, i, cols, values) ==
  IF i > Len(params) THEN Return(Join(cols, " AND "), values)
  ELSE
    LET k == params[i].k
        v == params[i].v
        n == ToString(Len(values) + 1)
    IN
    IF k = "title"
      THEN JobSearchInKeyOrder(params, i + 1,
             Append(cols, "title ILIKE $" \o n),
             Append(values, Str("%" \o TemplateString(v) \o "%")))
    ELSE IF k = "minSalary"
      THEN JobSearchInKeyOrder(params, i + 1,
             Append(cols, "salary >= $" \o n), Append(values, v))
    ELSE IF k = "hasEquity" /\ v = Bool(TRUE)
      THEN JobSearchInKeyOrder(params, i + 1,
             Append(cols, "equity > $" \o n), Append(values, Num(0)))
    ELSE IF k = "hasEquity" /\ v = Bool(FALSE)
      THEN JobSearchInKeyOrder(params, i + 1,
             Append(cols, "equity = $" \o n), Append(values, Num(0)))
    ELSE JobSearchInKeyOrder(params, i + 1, cols, values)

sqlForJobSearch_keyOrder(params) == JobSearchInKeyOrder(params, 1, <<>>, <<>>)

\* variant: hasEquity is tested for truthiness, an absent flag counts as false
sqlForJobSearch_absentIsFalse(params) ==
  LET title == Get(params, "title")
      minSalary == Get(params, "minSalary")
      hasEquity == Get(params, "hasEquity")
      cols0 == <<>>
      values0 == <<>>
      cols1 == IF title # Undefined
                 THEN Append(cols0,
                             "title ILIKE $" \o ToString(Len(values0) + 1))
                 ELSE cols0
      values1 == IF title # Undefined
                   THEN Append(values0,
                               Str("%" \o TemplateString(title) \o "%"))
                   ELSE values0
      cols2 == IF minSalary # Undefined
                 THEN Append(cols1,
                             "salary >= $" \o ToString(Len(values1) + 1))
                 ELSE cols1
      values2 == IF minSalary # Undefined THEN Append(values1, minSalary)
                 ELSE values1
      cols3 == IF Truthy(hasEquity)
                 THEN Append(cols2,
                             "equity > $" \o ToString(Len(values2) + 1))
                 ELSE Append(cols2,
                             "equity = $" \o ToString(Len(values2) + 1))
      values3 == Append(values2, Num(0))
  IN Return(Join(cols3, " AND "), values3)

sqlForJobSearch(params) ==
  LET title == Get(params, "title")
      minSalary == Get(params, "minSalary")
      hasEquity == Get(params, "hasEquity")
      cols0 == <<>>
      values0 == <<>>
      cols1 == IF title # Undefined
                 THEN Append(cols0,
                             "title ILIKE $" \o ToString(Len(values0) + 1))
                 ELSE cols0
      values1 == IF title # Undefined
                   THEN Append(values0,
                               Str("%" \o TemplateString(title) \o "%"))
                   ELSE values0
      cols2 == IF minSalary # Undefined
                 THEN Append(cols1,
                             "salary >= $" \o ToString(Len(values1) + 1))
                 ELSE cols1
      values2 == IF minSalary # Undefined THEN Append(values1, minSalary)
                 ELSE values1
      cols3 == IF hasEquity # Undefined /\ hasEquity = Bool(TRUE)
                 THEN Append(cols2,
                             "equity > $" \o ToString(Len(values2) + 1))
                 ELSE cols2
      values3 == IF hasEquity # Undefined /\ hasEquity = Bool(TRUE)
                   THEN Append(values2, Num(0))
                   ELSE values2
      cols4 == IF hasEquity # Undefined /\ hasEquity = Bool(FALSE)
                 THEN Append(cols3,
                             "equity = $" \o ToString(Len(values3) + 1))
                 ELSE cols3
      values4 == IF hasEquity # Undefined /\ hasEquity = Bool(FALSE)
                   THEN Append(values3, Num(0))
                   ELSE values3
  IN Return(Join(cols4, " AND "), values4)

(***************************************************************************)
(* Inputs.  Keys are identifier-like strings, so Object.keys is insertion  *)
(* order.  "handle" is a key none of the builders recognizes.              *)
(***************************************************************************)
\* all objects with pairwise distinct keys of E's entries, at most n entries
ObjectsOf(E, n) ==
  UNION {{o \in [1..m -> E] :
            \A i, j \in 1..m : i # j => o[i].k # o[j].k} : m \in 0..n}

Nums == {Num(i) : i \in 0..MaxNum}

UpdateEntries ==
  {Entry(k, v) : k \in {"title", "salary", "companyHandle"},
                 v \in {Num(0), Str("x"), Str(""), Null, Bool(FALSE)}}

TableEntries ==
  {Entry("companyHandle", Str("company_handle")),
   Entry("companyHandle", Str("")),
   Entry("title", Str("job_title"))}

CompanyEntries ==
  {Entry("nameLike", v) : v \in {Str(""), Str("net"), Str("c")}}
    \cup {Entry("minEmployees", v) : v \in Nums}
    \cup {Entry("maxEmployees", v) : v \in Nums}
    \cup {Entry("handle", Str("c1"))}

JobEntries ==
  {Entry("title", v) : v \in {Str(""), Str("senior"), Str("j")}}
    \cup {Entry("minSalary", v) : v \in Nums}
    \cup {Entry("hasEquity", v) : v \in {Bool(TRUE), Bool(FALSE), Str("true")}}
    \cup {Entry("handle", Str("c1"))}

UpdateInputs == ObjectsOf(UpdateEntries, MaxFields)
TableInputs == ObjectsOf(TableEntries, 2)
CompanyInputs == ObjectsOf(CompanyEntries, 4)
JobInputs == ObjectsOf(JobEntries, 4)

(***************************************************************************)
(* State machine: a caller picks a builder and its arguments, then the     *)
(* call runs to its outcome.                                               *)
(***************************************************************************)
\* no request is being served
Anonymous == [loggedIn |-> FALSE, username |-> "", isAdmin |-> FALSE]
NoRequest ==
  [user |-> Anonymous, id |-> Undefined, username |-> "", data |-> <<>>]
NoOut ==
  [kind |-> "pending", rows |-> <<>>, err |-> NoError, stmts |-> <<>>,
   reached |-> <<>>, status |-> 0]

\* the accumulators of a search builder: let cols = []; let values = []
NoFrame == [cols |-> <<>>, values |-> <<>>]

Init ==
  /\ argTerm = Undefined
  /\ argConditions = <<>>
  /\ argIdx = 0
  /\ procs = <<>>
  /\ pc = "called"
  /\ result = Pending
  /\ frame = NoFrame
  /\ calls = <<>>
  /\ jobs = {}
  /\ users = {}
  /\ request = NoRequest
  /\ out = NoOut
  /\ \/ /\ fn = "sqlForPartialUpdate"
        /\ dataToUpdate \in UpdateInputs
        /\ jsToSql \in TableInputs
        /\ queryParams = <<>>
     \/ /\ fn = "sqlForCompanySearch"
        /\ queryParams \in CompanyInputs
        /\ dataToUpdate = <<>>
        /\ jsToSql = <<>>
     \/ /\ fn = "sqlForJobSearch"
        /\ queryParams \in JobInputs
        /\ dataToUpdate = <<>>
        /\ jsToSql = <<>>

CallSqlForPartialUpdate ==
  /\ pc = "called"
  /\ fn = "sqlForPartialUpdate"
  /\ result' = sqlForPartialUpdate(dataToUpdate, jsToSql)
  /\ pc' = "done"
  /\ UNCHANGED <<fn, dataToUpdate, jsToSql, queryParams, frame, calls, appVars,
                 ruleVars, procs>>

\* variant: the keys the builder has used are deleted from queryParams
CallSqlForCompanySearch_consumesParams ==
  /\ pc = "called"
  /\ fn = "sqlForCompanySearch"
  /\ result' = sqlForCompanySearch(queryParams)
  /\ pc' = "done"
  /\ queryParams' =
       SelectSeq(queryParams,
                 LAMBDA e : e.k \notin {"nameLike", "minEmployees",
                                        "maxEmployees"})
  /\ UNCHANGED <<fn, dataToUpdate, jsToSql, frame, calls, appVars, ruleVars,
                 procs>>

CallSqlForCompanySearch ==
  /\ pc = "called"
  /\ fn = "sqlForCompanySearch"
  /\ result' = sqlForCompanySearch(queryParams)
  /\ pc' = "done"
  /\ UNCHANGED <<fn, dataToUpdate, jsToSql, queryParams, frame, calls, appVars,
                 ruleVars, procs>>

CallSqlForJobSearch ==
  /\ pc = "called"
  /\ fn = "sqlForJobSearch"
  /\ result' = sqlForJobSearch(queryParams)
  /\ pc' = "done"
  /\ UNCHANGED <<fn, dataToUpdate, jsToSql, queryParams, frame, calls, appVars,
                 ruleVars, procs>>

Next ==
  \/ CallSqlForPartialUpdate
  \/ CallSqlForCompanySearch
  \/ CallSqlForJobSearch

Spec == Init /\ [][Next]_vars

TypeOK ==
  /\ pc \in {"called", "done"}
  /\ result.kind \in {"pending", "return", "throw"}
  /\ pc = "called" <=> result.kind = "pending"

(***************************************************************************)
(* Properties of sqlForPartialUpdate.                                      *)
(***************************************************************************)
UpdateDone == pc = "done" /\ fn = "sqlForPartialUpdate"

\* every string that can be emitted as a column name
ColumnNames ==
  {e.k : e \in UpdateEntries} \cup {e.v.s : e \in TableEntries}

\* the i-th SET fragment for column c
SetFragment(c, i) == "\"" \o c \o "\"=$" \o ToString(i)

\* C1: for a non-empty dataToUpdate and any jsToSql, setCols is n fragments
\* joined by ", " (n the number of keys), the i-th carrying placeholder $i,
\* and values are the values of dataToUpdate in key order.
C1_UpdateFragmentsAligned ==
  (UpdateDone /\ Len(dataToUpdate) > 0) =>
    /\ result.kind = "return"
    /\ \E c \in [1..Len(dataToUpdate) -> ColumnNames] :
         result.text =
           Join([i \in 1..Len(dataToUpdate) |-> SetFragment(c[i], i)], ", ")
    /\ Len(result.values) = Len(dataToUpdate)
    /\ \A i \in 1..Len(dataToUpdate) : result.values[i] = dataToUpdate[i].v

C1_Witness ==
  /\ UpdateDone
  /\ Len(dataToUpdate) = 2
  /\ jsToSql # <<>>
  /\ result.kind = "return"
  /\ Len(result.values) = 2

\* C2: an empty dataToUpdate fails with BadRequestError("No data") for every
\* jsToSql, and nothing is returned.
C2_EmptyUpdateFails ==
  (UpdateDone /\ Len(dataToUpdate) = 0) =>
    /\ result.kind = "throw"
    /\ result.err = BadRequestError(<<"No data">>)
    /\ result.text = ""
    /\ result.values = <<>>

C2_Witness ==
  /\ UpdateDone
  /\ dataToUpdate = <<>>
  /\ Len(jsToSql) = 2
  /\ result.kind = "throw"

CompanyDone == pc = "done" /\ fn = "sqlForCompanySearch"
JobDone == pc = "done" /\ fn = "sqlForJobSearch"
SearchDone == CompanyDone \/ JobDone

CompanyKeys == {"nameLike", "minEmployees", "maxEmployees"}
JobKeys == {"title", "minSalary", "hasEquity"}

InvertedRangeError ==
  BadRequestError(<<"minEmployees cannot be larger than maxEmployees">>)

\* the builder named f applied to q
Builder(f, q) ==
  IF f = "sqlForCompanySearch" THEN sqlForCompanySearch(q)
  ELSE sqlForJobSearch(q)

\* fragment texts up to the placeholder number, each with the bind value
\* that belongs to it for the filter object q
CompanyTemplates(q) ==
  {[sql |-> "name ILIKE $",
    bind |-> Str("%" \o TemplateString(Get(q, "nameLike")) \o "%")],
   [sql |-> "num_employees >= $", bind |-> Get(q, "minEmployees")],
   [sql |-> "num_employees <= $", bind |-> Get(q, "maxEmployees")]}

JobTemplates(q) ==
  {[sql |-> "title ILIKE $",
    bind |-> Str("%" \o TemplateString(Get(q, "title")) \o "%")],
   [sql |-> "salary >= $", bind |-> Get(q, "minSalary")],
   [sql |-> "equity > $", bind |-> Num(0)],
   [sql |-> "equity = $", bind |-> Num(0)]}

\* C4: whenever a search builder returns, searchCols is Len(values)
\* fragments joined by " AND ", the i-th fragment carries placeholder $i,
\* and values[i] is the bind value of the i-th fragment.
C4_PlaceholdersAligned ==
  (SearchDone /\ result.kind = "return") =>
    LET T == IF fn = "sqlForCompanySearch" THEN CompanyTemplates(queryParams)
             ELSE JobTemplates(queryParams)
        n == Len(result.values)
    IN \E f \in [1..n -> T] :
         /\ result.text =
              Join([i \in 1..n |-> f[i].sql \o ToString(i)], " AND ")
         /\ \A i \in 1..n : result.values[i] = f[i].bind

C4_Witness ==
  /\ CompanyDone
  /\ result.kind = "return"
  /\ Len(result.values) = 3
  /\ Get(queryParams, "minEmployees") # Get(queryParams, "maxEmployees")

\* C5: a filter object without any recognized key gives searchCols "" and
\* values [].
C5_NoFilterIsEmpty ==
  /\ (CompanyDone /\ \A k \in CompanyKeys : ~HasKey(queryParams, k)) =>
       result = Return("", <<>>)
  /\ (JobDone /\ \A k \in JobKeys : ~HasKey(queryParams, k)) =>
       result = Return("", <<>>)

C5_Witness ==
  /\ CompanyDone
  /\ queryParams = <<Entry("handle", Str("c1"))>>
  /\ result.kind = "return"

\* every object with the entries of q in another insertion order
Reorderings(q) ==
  {[i \in 1..Len(q) |-> q[p[i]]] : p \in Permutations(1..Len(q))}

\* the elements of order whose index is in S, from index i on
RECURSIVE Pick(_, _, _)
Pick(order, S, i) ==
  IF i > Len(order) THEN <<>>
  ELSE (IF i \in S THEN <<order[i]>> ELSE <<>>) \o Pick(order, S, i + 1)

CompanyOrder ==
  <<"name ILIKE $", "num_employees >= $", "num_employees <= $">>
JobOrder == <<"title ILIKE $", "salary >= $", "equity > $", "equity = $">>

\* C6: the outcome does not depend on the insertion order of the keys, and
\* the fragments come in the fixed order name, min, max (companies) and
\* title, min salary, equity (jobs).
C6_KeyOrderIrrelevant ==
  SearchDone =>
    /\ \A q2 \in Reorderings(queryParams) : Builder(fn, q2) = result
    /\ result.kind = "return" =>
         LET order == IF fn = "sqlForCompanySearch" THEN CompanyOrder
                      ELSE JobOrder
         IN \E S \in SUBSET (1..Len(order)) :
              LET frs == Pick(order, S, 1) IN
              result.text =
                Join([i \in 1..Len(frs) |-> frs[i] \o ToString(i)], " AND ")

C6_Witness ==
  /\ JobDone
  /\ Len(queryParams) = 3
  /\ queryParams[1].k = "hasEquity"
  /\ queryParams[2].k = "minSalary"
  /\ queryParams[3].k = "title"
  /\ Len(result.values) = 3

InvertedRange(q) ==
  JsGreater(Get(q, "minEmployees"), Get(q, "maxEmployees"))

\* C7 as stated: minEmployees > maxEmployees fails with the inverted-range
\* error whatever the presence or value of nameLike.
C7_InvertedRangeAlways ==
  (CompanyDone /\ InvertedRange(queryParams)) => result = Throw(InvertedRangeError)

\* C7 amended: minEmployees > maxEmployees always fails with a
\* BadRequestError and returns no clause; it is the inverted-range error
\* when nameLike is absent or not the empty string, and the name rule's
\* BadRequestError (raised first, without message) when nameLike is "".
C7_InvertedRangeFails ==
  (CompanyDone /\ InvertedRange(queryParams)) =>
    IF Get(queryParams, "nameLike") = Str("")
      THEN result = Throw(BadRequestError(<<>>))
      ELSE result = Throw(InvertedRangeError)

C7_Witness ==
  /\ CompanyDone
  /\ InvertedRange(queryParams)
  /\ Get(queryParams, "nameLike") = Str("net")
  /\ result = Throw(InvertedRangeError)

\* the fragments sqlForJobSearch emits before the equity dimension
JobPrefix(q) ==
  LET t == IF HasKey(q, "title") THEN <<"title ILIKE $1">> ELSE <<>>
  IN IF HasKey(q, "minSalary")
       THEN Append(t, "salary >= $" \o ToString(Len(t) + 1))
       ELSE t

C9_EmptyTextFails ==
  /\ (CompanyDone /\ Get(queryParams, "nameLike") = Str("")) =>
       (result.kind = "throw" /\ result.err.name = "BadRequestError")
  /\ (JobDone /\ Get(queryParams, "title") = Str("")) =>
       (result.kind = "throw" /\ result.err.name = "BadRequestError")

\* the objects with the key sequence of q and values drawn from E, hasEquity
\* keeping its value
RECURSIVE Variants(_, _)
Variants(q, E) ==
  IF q = <<>> THEN {<<>>}
  ELSE {<<e>> \o t :
          e \in {x \in E : /\ x.k = q[1].k
                           /\ x.k = "hasEquity" => x.v = q[1].v},
          t \in Variants(Tail(q), E)}

\* C10: inputs with the same keys (and hasEquity) but other values give the
\* same SQL text, for the search builders and for sqlForPartialUpdate; a
\* text search term is found in the bind values as "%term%".
C10_ValuesNotInText ==
  (pc = "done" /\ result.kind = "return") =>
    /\ fn = "sqlForPartialUpdate" =>
         \A d2 \in Variants(dataToUpdate, UpdateEntries) :
           sqlForPartialUpdate(d2, jsToSql).text = result.text
    /\ fn = "sqlForCompanySearch" =>
         /\ \A q2 \in Variants(queryParams, CompanyEntries) :
              LET r2 == sqlForCompanySearch(q2) IN
              r2.kind = "return" => r2.text = result.text
         /\ HasKey(queryParams, "nameLike") =>
              /\ Len(result.values) >= 1
              /\ result.values[1] =
                   Str("%" \o Get(queryParams, "nameLike").s \o "%")
    /\ fn = "sqlForJobSearch" =>
         /\ \A q2 \in Variants(queryParams, JobEntries) :
              sqlForJobSearch(q2).text = result.text
         /\ HasKey(queryParams, "title") =>
              /\ Len(result.values) >= 1
              /\ result.values[1] =
                   Str("%" \o Get(queryParams, "title").s \o "%")

C10_Witness ==
  /\ CompanyDone
  /\ Get(queryParams, "nameLike") = Str("net")
  /\ HasKey(queryParams, "minEmployees")
  /\ result.text = "name ILIKE $1 AND num_employees >= $2"
  /\ result.values[1] = Str("%net%")

(***************************************************************************)
(* The jobs table and the statements sent to it (src/models/job.js).       *)
(*                                                                         *)
(* A stored row is [id, title, salary, equity, company_handle] of          *)
(* JavaScript values; the store is the set of rows.  SQL text is kept as   *)
(* the string the code builds, with runs of white space written as one     *)
(* blank.  The database reads a statement back from its text: a text that  *)
(* is none of the statement forms below is a syntax error.  Titles are at  *)
(* most two characters long, every company handle used exists.             *)
(***************************************************************************)
\* largest id of a seeded job
MaxId == 2

NotFoundError(args) == [name |-> "NotFoundError", args |-> args]
ReferenceError(ident) ==
  [name |-> "ReferenceError", args |-> <<ident \o " is not defined">>]
TypeError(msg) == [name |-> "TypeError", args |-> <<msg>>]
DatabaseError(msg) == [name |-> "DatabaseError", args |-> <<msg>>]

JobColumns == {"id", "title", "salary", "equity", "company_handle"}

\* the row as the RETURNING / SELECT list gives it: company_handle AS
\* "companyHandle", NUMERIC equity rendered as a string
NumericOut(v) == IF v.t = "number" THEN Str(ToString(v.n)) ELSE v

OutRow(r) ==
  [id |-> r.id, title |-> r.title, salary |-> r.salary,
   equity |-> NumericOut(r.equity), companyHandle |-> r.company_handle]

\* a bind value read as an INTEGER: a number, or a string of its digits
IsDbInt(v) ==
  \/ v.t = "number"
  \/ v.t = "string" /\ \E n \in 0..(MaxId + 2) : ToString(n) = v.s

DbInt(v) ==
  IF v.t = "number" THEN v.n
  ELSE CHOOSE n \in 0..(MaxId + 2) : ToString(n) = v.s

\* rows of a set in ascending id order (ORDER BY id)
RECURSIVE OrderById(_)
OrderById(rows) ==
  IF rows = {} THEN <<>>
  ELSE LET r == CHOOSE x \in rows : \A y \in rows : x.id.n <= y.id.n
       IN <<r>> \o OrderById(rows \ {r})

Returning == "id, title, salary, equity, company_handle AS \"companyHandle\""

InsertSql ==
  "INSERT INTO jobs( title, salary, equity, company_handle) VALUES "
    \o "($1, $2, $3, $4) RETURNING " \o Returning

SelectSql == "SELECT " \o Returning \o " FROM jobs"

DeleteSql == "DELETE FROM jobs WHERE id = $1 RETURNING id"

\* term occurs in s (ILIKE '%term%' on the lower-case titles of the model)
TextPieces == {"", "j", "n", "w"} \cup {ToString(i) : i \in 1..MaxId}

IsSubstring(term, s) == \E a, c \in TextPieces : s = a \o term \o c

DbResult(kind, rows, err, store) ==
  [kind |-> kind, rows |-> rows, err |-> err, jobs |-> store]

\* columns a SET clause of this program can name, and key columns
SetIdentifiers == {"title", "salary", "equity", "company_handle", "handle"}
KeyIdentifiers == {"id", "handle"}

\* every UPDATE statement on jobs with at most MaxFields + 1 placeholders,
\* with its reading: the SET columns, each with the placeholder of its
\* position, the key column and its placeholder
UpdateStatements ==
  {[text |-> "UPDATE jobs SET "
               \o Join([i \in 1..Len(p.cols) |->
                          "\"" \o p.cols[i] \o "\"=$" \o ToString(i)], ", ")
               \o " WHERE " \o p.whereCol \o " = $" \o ToString(p.wherePh)
               \o " RETURNING " \o Returning,
    cols |-> p.cols, whereCol |-> p.whereCol, wherePh |-> p.wherePh] :
     p \in UNION {[cols : [1..m -> SetIdentifiers],
                   whereCol : KeyIdentifiers,
                   wherePh : 1..(MaxFields + 1)] : m \in 1..MaxFields}}

\* the readings of an UPDATE text with n bind values
UpdateReadings(sql, n) ==
  {p \in UpdateStatements :
     p.text = sql /\ Len(p.cols) <= n /\ p.wherePh <= n}

\* the readings of a search predicate with n bind values: per fragment the
\* column test and its placeholder
SearchTests == {"title ILIKE", "salary >=", "equity >", "equity ="}

SearchReadings(sql, n) ==
  {p \in UNION {[1..m -> [test : SearchTests, ph : 1..n]] : m \in 1..n} :
     sql = SelectSql \o " WHERE "
             \o Join([i \in 1..Len(p) |->
                        p[i].test \o " $" \o ToString(p[i].ph)], " AND ")
             \o " ORDER BY id"}

\* does row r pass the test with bind value v
PassesTest(r, test, v) ==
  CASE test = "title ILIKE" ->
         \E term \in TextPieces \cup {"senior"} :
           v = Str("%" \o term \o "%") /\ IsSubstring(term, r.title.s)
    [] test = "salary >=" -> r.salary.t = "number" /\ r.salary.n >= DbInt(v)
    [] test = "equity >" -> r.equity.t = "number" /\ r.equity.n > DbInt(v)
    [] test = "equity =" -> r.equity.t = "number" /\ r.equity.n = DbInt(v)

\* row r with column c set to v
SetColumn(r, c, v) ==
  CASE c = "id" -> [r EXCEPT !.id = Num(DbInt(v))]
    [] c = "title" -> [r EXCEPT !.title = v]
    [] c = "salary" -> [r EXCEPT !.salary = v]
    [] c = "equity" -> [r EXCEPT !.equity = v]
    [] c = "company_handle" -> [r EXCEPT !.company_handle = v]

RECURSIVE SetColumns(_, _, _, _)
SetColumns(r, cols, binds, i) ==
  IF i > Len(cols) THEN r
  ELSE SetColumns(SetColumn(r, cols[i], binds[i]), cols, binds, i + 1)

\* value of column c of row r equals bind value v
ColumnEquals(r, c, v) ==
  CASE c = "id" -> IsDbInt(v) /\ r.id.n = DbInt(v)
    [] c = "title" -> r.title = v
    [] c = "salary" -> r.salary = v
    [] c = "equity" -> r.equity = v
    [] c = "company_handle" -> r.company_handle = v

\* db.query(text, binds) against the store
DbQuery(store, text, binds) ==
  IF text.t # "string"
    THEN DbResult("throw", <<>>,
           TypeError("Client was passed a null or undefined query"), store)
  ELSE IF text.s = InsertSql /\ Len(binds) = 4
    THEN LET ids == {r.id.n : r \in store}
             newId == IF ids = {} THEN 1
                      ELSE 1 + CHOOSE m \in ids : \A k \in ids : k <= m
             row == [id |-> Num(newId), title |-> binds[1],
                     salary |-> binds[2], equity |-> binds[3],
                     company_handle |-> binds[4]]
         IN DbResult("return", <<OutRow(row)>>, NoError, store \cup {row})
  ELSE IF text.s = SelectSql \o " ORDER BY id" /\ Len(binds) = 0
    THEN DbResult("return",
           [i \in 1..Cardinality(store) |-> OutRow(OrderById(store)[i])],
           NoError, store)
  ELSE IF text.s = SelectSql \o " WHERE id = $1" /\ Len(binds) = 1
    THEN IF ~IsDbInt(binds[1])
           THEN DbResult("throw", <<>>,
                  DatabaseError("invalid input syntax for type integer"),
                  store)
         ELSE LET hit == {r \in store : r.id.n = DbInt(binds[1])}
              IN DbResult("return",
                   [i \in 1..Cardinality(hit) |-> OutRow(OrderById(hit)[i])],
                   NoError, store)
  ELSE IF text.s = DeleteSql /\ Len(binds) = 1
    THEN IF ~IsDbInt(binds[1])
           THEN DbResult("throw", <<>>,
                  DatabaseError("invalid input syntax for type integer"),
                  store)
         ELSE LET hit == {r \in store : r.id.n = DbInt(binds[1])}
              IN DbResult("return",
                   [i \in 1..Cardinality(hit) |-> [id |-> OrderById(hit)[i].id]],
                   NoError, store \ hit)
  ELSE IF Len(binds) >= 1 /\ UpdateReadings(text.s, Len(binds)) # {}
    THEN LET p == CHOOSE x \in UpdateReadings(text.s, Len(binds)) : TRUE
             unknown == {c \in {p.cols[i] : i \in 1..Len(p.cols)}
                                 \cup {p.whereCol} : c \notin JobColumns}
         IN IF unknown # {}
              THEN DbResult("throw", <<>>,
                     DatabaseError("column \""
                       \o (CHOOSE c \in unknown : TRUE)
                       \o "\" does not exist"), store)
            ELSE LET hit == {r \in store :
                               ColumnEquals(r, p.whereCol, binds[p.wherePh])}
                     new == {SetColumns(r, p.cols, binds, 1) : r \in hit}
                 IN DbResult("return",
                      [i \in 1..Cardinality(new) |-> OutRow(OrderById(new)[i])],
                      NoError, (store \ hit) \cup new)
  ELSE IF Len(binds) >= 1 /\ SearchReadings(text.s, Len(binds)) # {}
    THEN LET p == CHOOSE x \in SearchReadings(text.s, Len(binds)) : TRUE
             hit == {r \in store :
                       \A i \in 1..Len(p) :
                         PassesTest(r, p[i].test, binds[p[i].ph])}
         IN DbResult("return",
              [i \in 1..Cardinality(hit) |-> OutRow(OrderById(hit)[i])],
              NoError, store)
  ELSE DbResult("throw", <<>>, DatabaseError("syntax error"), store)

(***************************************************************************)
(* src/models/job.js                                                       *)
(***************************************************************************)
\* names bound at the top of job.js: the requires of lines 3-5 and the class
JobModuleScope ==
  {"db", "BadRequestError", "NotFoundError", "sqlForPartialUpdate",
   "sqlForCompanySearch", "Job"}

\* str[key] on a string primitive, key not an array index
StringMember(str, key) ==
  IF TemplateString(key) = "length" THEN Num(Len(str)) ELSE Undefined

\* what a Job method comes to: the rows it returns or the error it throws,
\* the statements it sent to the database, and the store afterwards
JobResult(kind, rows, err, stmts, store) ==
  [kind |-> kind, rows |-> rows, err |-> err, stmts |-> stmts,
   jobs |-> store]

Statement(text, binds) == [text |-> text, binds |-> binds]

\* result.rows[0]: the first row, or no row (undefined)
FirstRow(rows) == IF Len(rows) = 0 THEN <<>> ELSE <<rows[1]>>

Job_create(store, data) ==
  LET title == Get(data, "title")
      salary == Get(data, "salary")
      equity == Get(data, "equity")
      company_handle == Get(data, "company_handle")
      \* the SQL literal is followed by [title, salary, equity,
      \* company_handle] without a comma: a member access with the value of
      \* the comma expression, its last operand
      text == StringMember(InsertSql, company_handle)
      sent == IF text.t = "string" THEN <<Statement(text, <<>>)>> ELSE <<>>
      res == DbQuery(store, text, <<>>)
  IN IF res.kind = "throw"
       THEN JobResult("throw", <<>>, res.err, sent, res.jobs)
     ELSE JobResult("return", FirstRow(res.rows), NoError, sent, res.jobs)

Job_findAll(store) ==
  LET text == Str(SelectSql \o " ORDER BY id")
      res == DbQuery(store, text, <<>>)
  IN IF res.kind = "throw"
       THEN JobResult("throw", <<>>, res.err, <<Statement(text, <<>>)>>,
                      res.jobs)
     ELSE JobResult("return", res.rows, NoError, <<Statement(text, <<>>)>>,
                    res.jobs)

Job_findBySearch(store, params) ==
  IF "sqlForJobSearch" \notin JobModuleScope
    THEN JobResult("throw", <<>>, ReferenceError("sqlForJobSearch"), <<>>,
                   store)
  ELSE
    LET c == sqlForJobSearch(params)
        text == Str(SelectSql \o " WHERE " \o c.text \o " ORDER BY id")
        res == DbQuery(store, text, c.values)
        sent == <<Statement(text, c.values)>>
    IN IF res.kind = "throw"
         THEN JobResult("throw", <<>>, res.err, sent, res.jobs)
       ELSE JobResult("return", res.rows, NoError, sent, res.jobs)

Job_get(store, id) ==
  LET text == Str(SelectSql \o " WHERE id = $1")
      sent == <<Statement(text, <<id>>)>>
      res == DbQuery(store, text, <<id>>)
  IN IF res.kind = "throw"
       THEN JobResult("throw", <<>>, res.err, sent, res.jobs)
     ELSE IF Len(res.rows) = 0
       THEN \* the message is built from `handle`
            IF "handle" \notin JobModuleScope \cup {"id", "jobRes", "job"}
              THEN JobResult("throw", <<>>, ReferenceError("handle"), sent,
                             res.jobs)
            ELSE JobResult("throw", <<>>,
                           NotFoundError(<<"No job id: undefined">>), sent,
                           res.jobs)
     ELSE JobResult("return", FirstRow(res.rows), NoError, sent, res.jobs)

\* variant: the key placeholder reuses the index of the last SET placeholder
Job_update_keyIndexN(store, id, data) ==
  LET c == sqlForPartialUpdate(
             data, <<Entry("companyHandle", Str("company_handle"))>>)
  IN IF c.kind = "throw" THEN JobResult("throw", <<>>, c.err, <<>>, store)
     ELSE
       LET idVarIdx == "$" \o ToString(Len(c.values))
           querySql == "UPDATE jobs SET " \o c.text
                         \o " WHERE handle = " \o idVarIdx
                         \o " RETURNING " \o Returning
           binds == c.values \o <<id>>
           sent == <<Statement(Str(querySql), binds)>>
           res == DbQuery(store, Str(querySql), binds)
       IN IF res.kind = "throw"
            THEN JobResult("throw", <<>>, res.err, sent, res.jobs)
          ELSE IF Len(res.rows) = 0
            THEN JobResult("throw", <<>>,
                   NotFoundError(<<"No job id: " \o TemplateString(id)>>),
                   sent, res.jobs)
          ELSE JobResult("return", FirstRow(res.rows), NoError, sent,
                         res.jobs)

\* variant: the compile failure is not looked at before the statement is sent
Job_update_sendsAnyway(store, id, data) ==
  LET c == sqlForPartialUpdate(
             data, <<Entry("companyHandle", Str("company_handle"))>>)
  IN IF FALSE THEN JobResult("throw", <<>>, c.err, <<>>, store)
     ELSE
       LET idVarIdx == "$" \o ToString(Len(c.values) + 1)
           querySql == "UPDATE jobs SET " \o c.text
                         \o " WHERE handle = " \o idVarIdx
                         \o " RETURNING " \o Returning
           binds == c.values \o <<id>>
           sent == <<Statement(Str(querySql), binds)>>
           res == DbQuery(store, Str(querySql), binds)
       IN IF res.kind = "throw"
            THEN JobResult("throw", <<>>, res.err, sent, res.jobs)
          ELSE IF Len(res.rows) = 0
            THEN JobResult("throw", <<>>,
                   NotFoundError(<<"No job id: " \o TemplateString(id)>>),
                   sent, res.jobs)
          ELSE JobResult("return", FirstRow(res.rows), NoError, sent,
                         res.jobs)

Job_update(store, id, data) ==
  LET c == sqlForPartialUpdate(
             data, <<Entry("companyHandle", Str("company_handle"))>>)
  IN IF c.kind = "throw" THEN JobResult("throw", <<>>, c.err, <<>>, store)
     ELSE
       LET idVarIdx == "$" \o ToString(Len(c.values) + 1)
           querySql == "UPDATE jobs SET " \o c.text
                         \o " WHERE handle = " \o idVarIdx
                         \o " RETURNING " \o Returning
           binds == c.values \o <<id>>
           sent == <<Statement(Str(querySql), binds)>>
           res == DbQuery(store, Str(querySql), binds)
       IN IF res.kind = "throw"
            THEN JobResult("throw", <<>>, res.err, sent, res.jobs)
          ELSE IF Len(res.rows) = 0
            THEN JobResult("throw", <<>>,
                   NotFoundError(<<"No job id: " \o TemplateString(id)>>),
                   sent, res.jobs)
          ELSE JobResult("return", FirstRow(res.rows), NoError, sent,
                         res.jobs)

Job_remove(store, id) ==
  LET text == Str(DeleteSql)
      sent == <<Statement(text, <<id>>)>>
      res == DbQuery(store, text, <<id>>)
  IN IF res.kind = "throw"
       THEN JobResult("throw", <<>>, res.err, sent, res.jobs)
     ELSE IF Len(res.rows) = 0
       THEN JobResult("throw", <<>>,
              NotFoundError(<<"No job id: " \o TemplateString(id)>>),
              sent, res.jobs)
     ELSE JobResult("return", <<>>, NoError, sent, res.jobs)

(***************************************************************************)
(* Inputs of the Job methods.                                              *)
(***************************************************************************)
\* seeded job i: title "j<i>", salary i, equity positive for even i
SeedRow(i) ==
  [id |-> Num(i), title |-> Str("j" \o ToString(i)), salary |-> Num(i),
   equity |-> Num(IF i % 2 = 0 THEN 1 ELSE 0), company_handle |-> Str("c1")]

Stores == SUBSET {SeedRow(i) : i \in 1..MaxId}

\* ids asked for: those seeded and one that no job has
JobIds == {Num(i) : i \in 1..(MaxId + 1)}

JobDataEntries ==
  {Entry("title", Str("nw"))}
    \cup {Entry("salary", v) : v \in {Num(0), Null}}
    \cup {Entry("equity", v) : v \in {Num(1), Null}}
    \cup {Entry("companyHandle", Str("c2")),
          Entry("company_handle", Str("c2"))}

JobDataInputs == ObjectsOf(JobDataEntries, MaxFields)

\* { title, salary, equity, <handle key> } with the handle under either name
JobNewInputs ==
  {<<Entry("title", Str("nw")), Entry("salary", sal), Entry("equity", eq),
     Entry(hk, Str("c2"))>> :
     sal \in {Num(0), Null}, eq \in {Num(1), Null},
     hk \in {"company_handle", "companyHandle"}}

JobSearchInputs == ObjectsOf(JobEntries, 2)

(***************************************************************************)
(* Collaborators of the routes that this repository keeps outside the      *)
(* modelled sources: the auth middleware (known from                       *)
(* src/middleware/auth.test.js), the error classes and their HTTP status,  *)
(* the JSON schemas and the User model (known from the route tests).       *)
(***************************************************************************)
UnauthorizedError == [name |-> "UnauthorizedError", args |-> <<>>]
ForbiddenError == [name |-> "ForbiddenError", args |-> <<>>]

\* the middleware passes (TRUE) or throws UnauthorizedError (FALSE)
ensureLoggedIn(user) == user.loggedIn
ensureAdmin(user) == user.loggedIn /\ user.isAdmin

StatusOf(err) ==
  CASE err.name = "BadRequestError" -> 400
    [] err.name = "UnauthorizedError" -> 401
    [] err.name = "ForbiddenError" -> 403
    [] err.name = "NotFoundError" -> 404
    [] OTHER -> 500

\* jobNew.json: title, salary, equity and companyHandle, nothing else
ValidJobNew(body) ==
  /\ \A k \in {"title", "salary", "equity", "companyHandle"} : HasKey(body, k)
  /\ \A i \in 1..Len(body) :
       body[i].k \in {"title", "salary", "equity", "companyHandle"}
  /\ Get(body, "title").t = "string"
  /\ Get(body, "salary").t \in {"number", "null"}
  /\ Get(body, "equity").t \in {"number", "null"}
  /\ Get(body, "companyHandle").t = "string"

\* jobUpdate.json: any of title, salary, equity, companyHandle; never id
ValidJobUpdate(body) ==
  /\ \A i \in 1..Len(body) :
       body[i].k \in {"title", "salary", "equity", "companyHandle"}
  /\ HasKey(body, "title") => Get(body, "title").t = "string"
  /\ HasKey(body, "salary") => Get(body, "salary").t \in {"number", "null"}
  /\ HasKey(body, "equity") => Get(body, "equity").t \in {"number", "null"}
  /\ HasKey(body, "companyHandle") => Get(body, "companyHandle").t = "string"

\* jobSearch.json: any of title, minSalary, hasEquity; minSalary an integer
ValidJobSearch(q) ==
  /\ \A i \in 1..Len(q) : q[i].k \in {"title", "minSalary", "hasEquity"}
  /\ HasKey(q, "title") => Get(q, "title").t = "string"
  /\ HasKey(q, "minSalary")
       => Get(q, "minSalary").t = "number" /\ Get(q, "minSalary").s = ""

\* userUpdate.json: any of firstName, lastName, password, email
ValidUserUpdate(body) ==
  \A i \in 1..Len(body) :
    /\ body[i].k \in {"firstName", "lastName", "password", "email"}
    /\ body[i].v.t = "string"

\* User.get / User.update / User.remove: NotFoundError for an unknown
\* username; remove deletes the user
UserResult(kind, err, store) == [kind |-> kind, err |-> err, users |-> store]

User_get(store, username) ==
  IF username \in store THEN UserResult("return", NoError, store)
  ELSE UserResult("throw", NotFoundError(<<"No user: " \o username>>), store)

User_update(store, username, data) ==
  IF Len(data) = 0
    THEN UserResult("throw", BadRequestError(<<"No data">>), store)
  ELSE IF username \in store THEN UserResult("return", NoError, store)
  ELSE UserResult("throw", NotFoundError(<<"No user: " \o username>>), store)

User_remove(store, username) ==
  IF username \in store
    THEN UserResult("return", NoError, store \ {username})
  ELSE UserResult("throw", NotFoundError(<<"No user: " \o username>>), store)

(***************************************************************************)
(* src/routes/jobs.js and src/routes/users.js                              *)
(***************************************************************************)
\* what a request comes to: the response status, the rows of the body or
\* the error, the statements sent, the steps reached in order, the stores
RouteResult(status, rows, err, stmts, reached, jobStore, userStore) ==
  [kind |-> IF err = NoError THEN "return" ELSE "throw",
   status |-> status, rows |-> rows, err |-> err, stmts |-> stmts,
   reached |-> reached, jobs |-> jobStore, users |-> userStore]

Rejected(err, reached, jobStore, userStore) ==
  RouteResult(StatusOf(err), <<>>, err, <<>>, reached, jobStore, userStore)

\* the response to a Job method's result; okStatus when it returned
JobResponse(okStatus, jr, reached, userStore) ==
  IF jr.kind = "throw"
    THEN RouteResult(StatusOf(jr.err), <<>>, jr.err, jr.stmts, reached,
                     jr.jobs, userStore)
  ELSE RouteResult(okStatus, jr.rows, NoError, jr.stmts, reached, jr.jobs,
                   userStore)

UserResponse(ur, reached, jobStore) ==
  IF ur.kind = "throw"
    THEN RouteResult(StatusOf(ur.err), <<>>, ur.err, <<>>, reached, jobStore,
                     ur.users)
  ELSE RouteResult(200, <<>>, NoError, <<>>, reached, jobStore, ur.users)

\* parseInt of a query-string value: the number of a digit string, else NaN
NaN == [t |-> "number", n |-> 0, s |-> "NaN"]

ParseInt(v) ==
  IF v.t = "string" /\ \E n \in 0..(MaxNum + 1) : ToString(n) = v.s
    THEN Num(CHOOSE n \in 0..(MaxNum + 1) : ToString(n) = v.s)
  ELSE NaN

\* variant: the body is validated before the caller is authorized
Route_postJobs_validateFirst(jobStore, userStore, req) ==
  IF ~ValidJobNew(req.data)
    THEN Rejected(BadRequestError(<<"jobNewSchema">>),
                  <<"validate">>, jobStore, userStore)
  ELSE IF ~ensureAdmin(req.user)
    THEN Rejected(UnauthorizedError, <<"validate", "ensureAdmin">>, jobStore,
                  userStore)
  ELSE JobResponse(201, Job_create(jobStore, req.data),
                   <<"validate", "ensureAdmin", "Job.create">>, userStore)

\* POST /jobs
Route_postJobs(jobStore, userStore, req) ==
  IF ~ensureAdmin(req.user)
    THEN Rejected(UnauthorizedError, <<"ensureAdmin">>, jobStore, userStore)
  ELSE IF ~ValidJobNew(req.data)
    THEN Rejected(BadRequestError(<<"jobNewSchema">>),
                  <<"ensureAdmin", "validate">>, jobStore, userStore)
  ELSE JobResponse(201, Job_create(jobStore, req.data),
                   <<"ensureAdmin", "validate", "Job.create">>, userStore)

\* the query string with minSalary, when given, replaced by its parseInt
ParseQuery(q) ==
  [i \in 1..Len(q) |->
     IF q[i].k = "minSalary" THEN Entry("minSalary", ParseInt(q[i].v))
     ELSE q[i]]

\* GET /jobs
Route_getJobs(jobStore, userStore, req) ==
  LET parsedQs == ParseQuery(req.data)
  IN IF ~ValidJobSearch(parsedQs)
       THEN Rejected(BadRequestError(<<"jobSearchSchema">>), <<"validate">>,
                     jobStore, userStore)
     ELSE IF Len(ObjectKeys(parsedQs)) > 0
       THEN JobResponse(200, Job_findBySearch(jobStore, parsedQs),
                        <<"validate", "Job.findBySearch">>, userStore)
     ELSE JobResponse(200, Job_findAll(jobStore),
                      <<"validate", "Job.findAll">>, userStore)

\* GET /jobs/:id
Route_getJob(jobStore, userStore, req) ==
  JobResponse(200, Job_get(jobStore, req.id), <<"Job.get">>, userStore)

\* PATCH /jobs/:id
Route_patchJob(jobStore, userStore, req) ==
  IF ~ensureAdmin(req.user)
    THEN Rejected(UnauthorizedError, <<"ensureAdmin">>, jobStore, userStore)
  ELSE IF ~ValidJobUpdate(req.data)
    THEN Rejected(BadRequestError(<<"jobUpdateSchema">>),
                  <<"ensureAdmin", "validate">>, jobStore, userStore)
  ELSE JobResponse(200, Job_update(jobStore, req.id, req.data),
                   <<"ensureAdmin", "validate", "Job.update">>, userStore)

\* DELETE /jobs/:id
Route_deleteJob(jobStore, userStore, req) ==
  IF ~ensureAdmin(req.user)
    THEN Rejected(UnauthorizedError, <<"ensureAdmin">>, jobStore, userStore)
  ELSE JobResponse(200, Job_remove(jobStore, req.id),
                   <<"ensureAdmin", "Job.remove">>, userStore)

\* variant: any logged-in caller passes
AdminOrSelf_anyLoggedIn(user, username) == user.loggedIn

\* the admin-or-self test of the /users/:username routes
AdminOrSelf(user, username) == user.username = username \/ user.isAdmin = TRUE

\* GET /users/:username
Route_getUser(jobStore, userStore, req) ==
  IF ~ensureLoggedIn(req.user)
    THEN Rejected(UnauthorizedError, <<"ensureLoggedIn">>, jobStore,
                  userStore)
  ELSE IF AdminOrSelf(req.user, req.username)
    THEN UserResponse(User_get(userStore, req.username),
                      <<"ensureLoggedIn", "User.get">>, jobStore)
  ELSE Rejected(ForbiddenError, <<"ensureLoggedIn">>, jobStore, userStore)

\* PATCH /users/:username
Route_patchUser(jobStore, userStore, req) ==
  IF ~ensureLoggedIn(req.user)
    THEN Rejected(UnauthorizedError, <<"ensureLoggedIn">>, jobStore,
                  userStore)
  ELSE IF AdminOrSelf(req.user, req.username)
    THEN IF ~ValidUserUpdate(req.data)
           THEN Rejected(BadRequestError(<<"userUpdateSchema">>),
                         <<"ensureLoggedIn", "validate">>, jobStore,
                         userStore)
         ELSE UserResponse(User_update(userStore, req.username, req.data),
                           <<"ensureLoggedIn", "validate", "User.update">>,
                           jobStore)
  ELSE Rejected(ForbiddenError, <<"ensureLoggedIn">>, jobStore, userStore)

\* DELETE /users/:username
Route_deleteUser(jobStore, userStore, req) ==
  IF ~ensureLoggedIn(req.user)
    THEN Rejected(UnauthorizedError, <<"ensureLoggedIn">>, jobStore,
                  userStore)
  ELSE IF AdminOrSelf(req.user, req.username)
    THEN UserResponse(User_remove(userStore, req.username),
                      <<"ensureLoggedIn", "User.remove">>, jobStore)
  ELSE Rejected(ForbiddenError, <<"ensureLoggedIn">>, jobStore, userStore)

(***************************************************************************)
(* The application: one call of a Job method, or one request to a route of *)
(* /jobs or /users, against a seeded store.                                *)
(***************************************************************************)
\* who sends the request: nobody logged in, two plain users, an admin
Caller(username, isAdmin) ==
  [loggedIn |-> TRUE, username |-> username, isAdmin |-> isAdmin]

Callers ==
  {Anonymous, Caller("u1", FALSE), Caller("u2", FALSE), Caller("admin", TRUE)}

UserStores == SUBSET {"u1", "u2"}
UserParams == {"u1", "u2", "u3"}

\* :id as it arrives in the path
JobIdParams == {Str(ToString(i)) : i \in 1..(MaxId + 1)}

\* bodies of POST /jobs: well-formed ones with the handle under either name,
\* one without a title, one with a salary that is no number
JobNewBodies ==
  JobNewInputs
    \cup {<<Entry("salary", Num(0)), Entry("equity", Null),
            Entry("companyHandle", Str("c2"))>>,
          <<Entry("title", Str("nw")), Entry("salary", Str("asdf")),
            Entry("equity", Null), Entry("companyHandle", Str("c2"))>>}

\* bodies of PATCH /jobs/:id
JobUpdateBodies ==
  JobDataInputs
    \cup {<<Entry("id", Num(1))>>, <<Entry("salary", Str("asdf"))>>}

\* query strings of GET /jobs: every value is a string
JobQueryEntries ==
  {Entry("title", Str("j")), Entry("title", Str("")),
   Entry("minSalary", Str("1")), Entry("minSalary", Str("abc")),
   Entry("hasEquity", Str("true")), Entry("hasEquity", Str("false")),
   Entry("handle", Str("c1"))}

JobQueries == ObjectsOf(JobQueryEntries, MaxFields)

UserUpdateBodies ==
  {<<>>, <<Entry("firstName", Str("nw"))>>, <<Entry("isAdmin", Bool(TRUE))>>}

Request(user, id, username, data) ==
  [user |-> user, id |-> id, username |-> username, data |-> data]

InitApp ==
  /\ argTerm = Undefined
  /\ argConditions = <<>>
  /\ argIdx = 0
  /\ procs = <<>>
  /\ pc = "called"
  /\ result = Pending
  /\ frame = NoFrame
  /\ calls = <<>>
  /\ dataToUpdate = <<>>
  /\ jsToSql = <<>>
  /\ queryParams = <<>>
  /\ out = NoOut
  /\ jobs \in Stores
  /\ \/ /\ fn = "Job.create"
        /\ users = {}
        /\ \E d \in JobNewInputs :
             request = Request(Anonymous, Undefined, "", d)
     \/ /\ fn = "Job.findAll"
        /\ users = {}
        /\ request = NoRequest
     \/ /\ fn = "Job.findBySearch"
        /\ users = {}
        /\ \E d \in JobSearchInputs :
             request = Request(Anonymous, Undefined, "", d)
     \/ /\ fn \in {"Job.get", "Job.remove"}
        /\ users = {}
        /\ \E i \in JobIds : request = Request(Anonymous, i, "", <<>>)
     \/ /\ fn = "Job.update"
        /\ users = {}
        /\ \E i \in JobIds, d \in JobDataInputs :
             request = Request(Anonymous, i, "", d)
     \/ /\ fn = "POST /jobs"
        /\ users = {}
        /\ \E u \in Callers, d \in JobNewBodies :
             request = Request(u, Undefined, "", d)
     \/ /\ fn = "GET /jobs"
        /\ users = {}
        /\ \E u \in Callers, d \in JobQueries :
             request = Request(u, Undefined, "", d)
     \/ /\ fn \in {"GET /jobs/:id", "DELETE /jobs/:id"}
        /\ users = {}
        /\ \E u \in Callers, i \in JobIdParams :
             request = Request(u, i, "", <<>>)
     \/ /\ fn = "PATCH /jobs/:id"
        /\ users = {}
        /\ \E u \in Callers, i \in JobIdParams, d \in JobUpdateBodies :
             request = Request(u, i, "", d)
     \/ /\ fn \in {"GET /users/:username", "DELETE /users/:username"}
        /\ users \in UserStores
        /\ \E u \in Callers, n \in UserParams :
             request = Request(u, Undefined, n, <<>>)
     \/ /\ fn = "PATCH /users/:username"
        /\ users \in UserStores
        /\ \E u \in Callers, n \in UserParams, d \in UserUpdateBodies :
             request = Request(u, Undefined, n, d)

\* a direct call of a Job method ends with result jr
Finish(jr) ==
  /\ out' = [kind |-> jr.kind, rows |-> jr.rows, err |-> jr.err,
             stmts |-> jr.stmts, reached |-> <<>>, status |-> 0]
  /\ jobs' = jr.jobs
  /\ pc' = "done"
  /\ UNCHANGED <<fn, builderVars, users, request, ruleVars, procs>>

\* a request ends with response rr
Respond(rr) ==
  /\ out' = [kind |-> rr.kind, rows |-> rr.rows, err |-> rr.err,
             stmts |-> rr.stmts, reached |-> rr.reached, status |-> rr.status]
  /\ jobs' = rr.jobs
  /\ users' = rr.users
  /\ pc' = "done"
  /\ UNCHANGED <<fn, builderVars, request, ruleVars, procs>>

CallJobCreate ==
  /\ pc = "called" /\ fn = "Job.create"
  /\ Finish(Job_create(jobs, request.data))

CallJobFindAll ==
  /\ pc = "called" /\ fn = "Job.findAll"
  /\ Finish(Job_findAll(jobs))

CallJobFindBySearch ==
  /\ pc = "called" /\ fn = "Job.findBySearch"
  /\ Finish(Job_findBySearch(jobs, request.data))

CallJobGet ==
  /\ pc = "called" /\ fn = "Job.get"
  /\ Finish(Job_get(jobs, request.id))

CallJobUpdate ==
  /\ pc = "called" /\ fn = "Job.update"
  /\ Finish(Job_update(jobs, request.id, request.data))

CallJobRemove ==
  /\ pc = "called" /\ fn = "Job.remove"
  /\ Finish(Job_remove(jobs, request.id))

PostJobs ==
  /\ pc = "called" /\ fn = "POST /jobs"
  /\ Respond(Route_postJobs(jobs, users, request))

GetJobs ==
  /\ pc = "called" /\ fn = "GET /jobs"
  /\ Respond(Route_getJobs(jobs, users, request))

GetJob ==
  /\ pc = "called" /\ fn = "GET /jobs/:id"
  /\ Respond(Route_getJob(jobs, users, request))

PatchJob ==
  /\ pc = "called" /\ fn = "PATCH /jobs/:id"
  /\ Respond(Route_patchJob(jobs, users, request))

DeleteJob ==
  /\ pc = "called" /\ fn = "DELETE /jobs/:id"
  /\ Respond(Route_deleteJob(jobs, users, request))

GetUser ==
  /\ pc = "called" /\ fn = "GET /users/:username"
  /\ Respond(Route_getUser(jobs, users, request))

PatchUser ==
  /\ pc = "called" /\ fn = "PATCH /users/:username"
  /\ Respond(Route_patchUser(jobs, users, request))

DeleteUser ==
  /\ pc = "called" /\ fn = "DELETE /users/:username"
  /\ Respond(Route_deleteUser(jobs, users, request))

NextApp ==
  \/ CallJobCreate
  \/ CallJobFindAll
  \/ CallJobFindBySearch
  \/ CallJobGet
  \/ CallJobUpdate
  \/ CallJobRemove
  \/ PostJobs
  \/ GetJobs
  \/ GetJob
  \/ PatchJob
  \/ DeleteJob
  \/ GetUser
  \/ PatchUser
  \/ DeleteUser

SpecApp == InitApp /\ [][NextApp]_vars

(***************************************************************************)
(* Properties of the application (SpecApp).                                *)
(***************************************************************************)
Done(f) == pc = "done" /\ fn = f
Calling(f) == pc = "called" /\ fn = f /\ pc' = "done"

IdOf(v) == IF v.t = "number" THEN v.n ELSE ParseInt(v).n
RowsWithId(store, id) == {r \in store : r.id.n = IdOf(id)}
InOrder(rows) == [i \in 1..Cardinality(rows) |-> OutRow(OrderById(rows)[i])]
UnfilteredSelect == Statement(Str(SelectSql \o " ORDER BY id"), <<>>)

\* C11: a GET /jobs whose query reaches Job.findBySearch and compiles to an
\* empty searchCols runs the unfiltered SELECT ... ORDER BY id, and no
\* statement with WHERE before an empty predicate is ever executed.
C11_EmptyPredicateRunsUnfiltered ==
  (/\ Done("GET /jobs")
   /\ Len(request.data) > 0
   /\ ValidJobSearch(ParseQuery(request.data))
   /\ sqlForJobSearch(ParseQuery(request.data)).text = "")
  => /\ out.stmts = <<UnfilteredSelect>>
     /\ out.kind = "return"
     /\ out.rows = InOrder(jobs)

\* C13: Job.get(id) of an id no job has fails with NotFoundError, 404 from
\* GET /jobs/:id; of an id a job has it returns that job's row.
C13_GetMissingIsNotFound ==
  (Done("Job.get") \/ Done("GET /jobs/:id")) =>
    IF RowsWithId(jobs, request.id) = {}
      THEN /\ out.kind = "throw"
           /\ out.err.name = "NotFoundError"
           /\ Done("GET /jobs/:id") => out.status = 404
      ELSE /\ out.kind = "return"
           /\ out.rows = InOrder(RowsWithId(jobs, request.id))

\* C14: Job.update with non-empty data and Job.remove, of an id no job has,
\* fail with NotFoundError after their statement was executed and leave
\* every stored row unchanged.
C14_MissingIdIsNotFound ==
  [][(/\ Calling("Job.update") \/ Calling("Job.remove")
      /\ fn = "Job.update" => Len(request.data) > 0
      /\ RowsWithId(jobs, request.id) = {})
     => /\ out'.kind = "throw"
        /\ out'.err.name = "NotFoundError"
        /\ Len(out'.stmts) = 1
        /\ jobs' = jobs]_vars

\* the column a field of the update data names
ColumnOf(k) == IF k = "companyHandle" THEN "company_handle" ELSE k

\* C15: Job.update of an existing id with non-empty data sets, in the row of
\* that id, exactly the fields named in data (null included), leaves the
\* other fields and rows unchanged, and returns the updated row.
C15_UpdateChangesNamedFields ==
  [][(/\ Calling("Job.update")
      /\ Len(request.data) > 0
      /\ \A i \in 1..Len(request.data) :
           ColumnOf(request.data[i].k) \in JobColumns \ {"id"}
      /\ RowsWithId(jobs, request.id) # {})
     => LET old == CHOOSE r \in jobs : r.id.n = IdOf(request.id)
            new == SetColumns(old,
                     [i \in 1..Len(request.data) |->
                        ColumnOf(request.data[i].k)],
                     ObjectValues(request.data), 1)
        IN /\ out'.kind = "return"
           /\ out'.rows = <<OutRow(new)>>
           /\ jobs' = (jobs \ {old}) \cup {new}]_vars

\* C16: Job.create({ title, salary, equity, company_handle }) executes one
\* INSERT with the four values bound to $1..$4, adds exactly one row holding
\* them under a fresh id, and returns that row.
C16_CreateInsertsOneRow ==
  [][(Calling("Job.create") /\ HasKey(request.data, "company_handle"))
     => LET four == <<Get(request.data, "title"), Get(request.data, "salary"),
                      Get(request.data, "equity"),
                      Get(request.data, "company_handle")>>
        IN /\ out'.stmts = <<Statement(Str(InsertSql), four)>>
           /\ out'.kind = "return"
           /\ \E r \in jobs' \ jobs :
                /\ jobs' = jobs \cup {r}
                /\ <<r.title, r.salary, r.equity, r.company_handle>> = four
                /\ r.id \notin {x.id : x \in jobs}
                /\ out'.rows = <<OutRow(r)>>]_vars

JobWrites == {"POST /jobs", "PATCH /jobs/:id", "DELETE /jobs/:id"}

\* C17: on POST /jobs, PATCH /jobs/:id and DELETE /jobs/:id a caller who is
\* anonymous or no admin is answered 401 whatever the body and the id are;
\* neither validation nor a Job method is reached, and no job changes.
C17_AuthorizationFirst ==
  [][(/\ pc = "called" /\ pc' = "done"
      /\ fn \in JobWrites
      /\ ~(request.user.loggedIn /\ request.user.isAdmin))
     => /\ out'.status = 401
        /\ out'.err = UnauthorizedError
        /\ out'.reached = <<"ensureAdmin">>
        /\ out'.stmts = <<>>
        /\ jobs' = jobs]_vars

C17_Witness ==
  /\ Done("POST /jobs")
  /\ request.user.loggedIn /\ ~request.user.isAdmin
  /\ ~ValidJobNew(request.data)
  /\ out.status = 401

UserRoutes ==
  {"GET /users/:username", "PATCH /users/:username",
   "DELETE /users/:username"}
UserOps == {"User.get", "User.update", "User.remove"}

\* C18: on GET, PATCH and DELETE /users/:username a User operation runs only
\* when the caller's username is the :username parameter or the caller is
\* an admin; every other logged-in caller is rejected and no User operation
\* runs.
C18_AdminOrSelfOnly ==
  [][(pc = "called" /\ pc' = "done" /\ fn \in UserRoutes)
     => LET ran == {i \in 1..Len(out'.reached) : out'.reached[i] \in UserOps}
            allowed == \/ request.user.username = request.username
                       \/ request.user.isAdmin
        IN /\ ran # {} => request.user.loggedIn /\ allowed
           /\ (request.user.loggedIn /\ ~allowed)
                => /\ out'.kind = "throw"
                   /\ out'.status \in {401, 403}
                   /\ ran = {}
                   /\ users' = users]_vars

C18_Witness ==
  /\ Done("DELETE /users/:username")
  /\ request.user = Caller("u1", FALSE)
  /\ request.username = "u2"
  /\ "u2" \in users
  /\ out.kind = "throw"

\* does stored row r satisfy the filters of query q
Satisfies(r, q) ==
  /\ HasKey(q, "title") => IsSubstring(Get(q, "title").s, r.title.s)
  /\ HasKey(q, "minSalary")
       => r.salary.t = "number" /\ r.salary.n >= ParseInt(Get(q, "minSalary")).n
  /\ (HasKey(q, "hasEquity") /\ Get(q, "hasEquity") = Str("true"))
       => r.equity.t = "number" /\ r.equity.n > 0
  /\ (HasKey(q, "hasEquity") /\ Get(q, "hasEquity") = Str("false"))
       => r.equity.t = "number" /\ r.equity.n = 0

\* C19: GET /jobs applies every recognized filter of the query string:
\* hasEquity=true keeps the jobs with equity > 0, hasEquity=false those with
\* equity = 0, and the answer is exactly the jobs satisfying all filters, in
\* id order.
C19_EveryFilterApplied ==
  (Done("GET /jobs") /\ ValidJobSearch(ParseQuery(request.data)))
  => /\ out.kind = "return"
     /\ out.rows = InOrder({r \in jobs : Satisfies(r, request.data)})

\* C20: in every statement built by Job.update the key placeholder is the
\* number of SET placeholders plus one and the binds are the compiled values
\* followed by the id: placeholders $1..$(n+1), one bind for each.
C20_KeyPlaceholderAfterValues ==
  (Done("Job.update") \/ Done("PATCH /jobs/:id")) =>
    \A i \in 1..Len(out.stmts) :
      LET st == out.stmts[i]
          n == Len(request.data)
      IN /\ st.binds = ObjectValues(request.data) \o <<request.id>>
         /\ Len(st.binds) = n + 1
         /\ \E p \in UpdateStatements :
              /\ p.text = st.text.s
              /\ Len(p.cols) = n
              /\ p.wherePh = n + 1

C20_Witness ==
  /\ Done("Job.update")
  /\ Len(request.data) = 2
  /\ Len(out.stmts) = 1
  /\ Len(out.stmts[1].binds) = 3

(***************************************************************************)
(* Calls in sequence: the builders of src/helpers/sql.js called one after  *)
(* another in one process, each running statement by statement on its      *)
(* accumulators.                                                           *)
(***************************************************************************)
MaxCalls == 3

\* variant: cols and values live at module level and outlast the call
NewFrame_keepsPrevious(previous) == previous

\* let cols = []; let values = []; at the entry of a builder, whatever an
\* earlier call left behind
NewFrame(previous) == NoFrame

CallUpdateData ==
  {<<>>, <<Entry("title", Str("x"))>>,
   <<Entry("companyHandle", Str("x")), Entry("salary", Num(0))>>}

CallUpdateTables == {<<>>, <<Entry("companyHandle", Str("company_handle"))>>}

CallCompanyParams ==
  {<<>>, <<Entry("nameLike", Str("net"))>>, <<Entry("nameLike", Str(""))>>,
   <<Entry("maxEmployees", Num(1))>>,
   <<Entry("minEmployees", Num(1)), Entry("maxEmployees", Num(0))>>,
   <<Entry("nameLike", Str("c")), Entry("minEmployees", Num(0)),
     Entry("maxEmployees", Num(1))>>}

CallJobParams ==
  {<<>>, <<Entry("minSalary", Num(1))>>, <<Entry("hasEquity", Bool(FALSE))>>,
   <<Entry("title", Str("j")), Entry("minSalary", Num(1)),
     Entry("hasEquity", Bool(TRUE))>>}

InitCalls ==
  /\ argTerm = Undefined
  /\ argConditions = <<>>
  /\ argIdx = 0
  /\ procs = <<>>
  /\ pc = "idle"
  /\ fn = ""
  /\ dataToUpdate = <<>>
  /\ jsToSql = <<>>
  /\ queryParams = <<>>
  /\ result = Pending
  /\ frame = NoFrame
  /\ calls = <<>>
  /\ jobs = {}
  /\ users = {}
  /\ request = NoRequest
  /\ out = NoOut

EnterSqlForPartialUpdate ==
  /\ pc = "idle"
  /\ Len(calls) < MaxCalls
  /\ fn' = "sqlForPartialUpdate"
  /\ dataToUpdate' \in CallUpdateData
  /\ jsToSql' \in CallUpdateTables
  /\ queryParams' = <<>>
  /\ result' = Pending
  /\ pc' = "keys"
  /\ UNCHANGED <<frame, calls, appVars, ruleVars, procs>>

EnterSqlForCompanySearch ==
  /\ pc = "idle"
  /\ Len(calls) < MaxCalls
  /\ fn' = "sqlForCompanySearch"
  /\ queryParams' \in CallCompanyParams
  /\ dataToUpdate' = <<>>
  /\ jsToSql' = <<>>
  /\ result' = Pending
  /\ frame' = NewFrame(frame)
  /\ pc' = "nameLike"
  /\ UNCHANGED <<calls, appVars, ruleVars, procs>>

EnterSqlForJobSearch ==
  /\ pc = "idle"
  /\ Len(calls) < MaxCalls
  /\ fn' = "sqlForJobSearch"
  /\ queryParams' \in CallJobParams
  /\ dataToUpdate' = <<>>
  /\ jsToSql' = <<>>
  /\ result' = Pending
  /\ frame' = NewFrame(frame)
  /\ pc' = "title"
  /\ UNCHANGED <<calls, appVars, ruleVars, procs>>

\* the call ends with outcome r
Leave(r) ==
  /\ result' = r
  /\ calls' = Append(calls, r.kind)
  /\ pc' = "idle"

\* sql.js 34-45: keys, the map and the return use no accumulator
RunSqlForPartialUpdate ==
  /\ pc = "keys"
  /\ Leave(sqlForPartialUpdate(dataToUpdate, jsToSql))
  /\ UNCHANGED <<fn, dataToUpdate, jsToSql, queryParams, frame, appVars,
                 ruleVars, procs>>

\* sql.js 68-76
CompanyByName ==
  /\ pc = "nameLike"
  /\ LET nameLike == Get(queryParams, "nameLike")
         byName == IF nameLike # Undefined
                     THEN _sqlForCompanySearchByName(nameLike,
                                                     Len(frame.values))
                     ELSE ReturnTemp(<<>>, <<>>)
     IN IF byName.kind = "throw"
          THEN Leave(Throw(byName.err)) /\ UNCHANGED frame
        ELSE /\ frame' = [cols |-> frame.cols \o byName.colsTemp,
                          values |-> frame.values \o byName.valuesTemp]
             /\ pc' = "numEmps"
             /\ UNCHANGED <<result, calls>>
  /\ UNCHANGED <<fn, dataToUpdate, jsToSql, queryParams, appVars, ruleVars,
                 procs>>

\* sql.js 78-94
CompanyByNumEmps ==
  /\ pc = "numEmps"
  /\ LET minEmployees == Get(queryParams, "minEmployees")
         maxEmployees == Get(queryParams, "maxEmployees")
         byNumEmps ==
           IF minEmployees # Undefined \/ maxEmployees # Undefined
             THEN _sqlForCompanySearchByNumEmps(
                    <<Entry("minEmployees", minEmployees),
                      Entry("maxEmployees", maxEmployees)>>,
                    Len(frame.values))
             ELSE ReturnTemp(<<>>, <<>>)
     IN IF byNumEmps.kind = "throw"
          THEN Leave(Throw(byNumEmps.err)) /\ UNCHANGED frame
        ELSE LET cols == frame.cols \o byNumEmps.colsTemp
                 values == frame.values \o byNumEmps.valuesTemp
             IN /\ frame' = [cols |-> cols, values |-> values]
                /\ Leave(Return(Join(cols, " AND "), values))
  /\ UNCHANGED <<fn, dataToUpdate, jsToSql, queryParams, appVars, ruleVars,
                 procs>>

\* cols.push(col); values.push(value) when present, else nothing
Pushed(fr, present, col, value) ==
  IF present
    THEN [cols |-> Append(fr.cols, col \o ToString(Len(fr.values) + 1)),
          values |-> Append(fr.values, value)]
  ELSE fr

\* sql.js 191-194
JobByTitle ==
  /\ pc = "title"
  /\ LET title == Get(queryParams, "title")
     IN frame' = Pushed(frame, title # Undefined, "title ILIKE $",
                        Str("%" \o TemplateString(title) \o "%"))
  /\ pc' = "minSalary"
  /\ UNCHANGED <<fn, dataToUpdate, jsToSql, queryParams, result, calls,
                 appVars, ruleVars, procs>>

\* sql.js 195-198
JobByMinSalary ==
  /\ pc = "minSalary"
  /\ LET minSalary == Get(queryParams, "minSalary")
     IN frame' = Pushed(frame, minSalary # Undefined, "salary >= $",
                        minSalary)
  /\ pc' = "hasEquity"
  /\ UNCHANGED <<fn, dataToUpdate, jsToSql, queryParams, result, calls,
                 appVars, ruleVars, procs>>

\* sql.js 199-213
JobByHasEquity ==
  /\ pc = "hasEquity"
  /\ LET hasEquity == Get(queryParams, "hasEquity")
         fr1 == Pushed(frame,
                       hasEquity # Undefined /\ hasEquity = Bool(TRUE),
                       "equity > $", Num(0))
         fr2 == Pushed(fr1,
                       hasEquity # Undefined /\ hasEquity = Bool(FALSE),
                       "equity = $", Num(0))
     IN /\ frame' = fr2
        /\ Leave(Return(Join(fr2.cols, " AND "), fr2.values))
  /\ UNCHANGED <<fn, dataToUpdate, jsToSql, queryParams, appVars, ruleVars,
                 procs>>

NextCalls ==
  \/ EnterSqlForPartialUpdate
  \/ EnterSqlForCompanySearch
  \/ EnterSqlForJobSearch
  \/ RunSqlForPartialUpdate
  \/ CompanyByName
  \/ CompanyByNumEmps
  \/ JobByTitle
  \/ JobByMinSalary
  \/ JobByHasEquity

SpecCalls == InitCalls /\ [][NextCalls]_vars

\* what the call of fn with the current arguments returns when it is the
\* first call of the process
FirstCall ==
  CASE fn = "sqlForPartialUpdate" -> sqlForPartialUpdate(dataToUpdate, jsToSql)
    [] fn = "sqlForCompanySearch" -> sqlForCompanySearch(queryParams)
    [] fn = "sqlForJobSearch" -> sqlForJobSearch(queryParams)

\* C12: after any sequence of earlier calls of the three builders, returned
\* or thrown, a call gives exactly what it gives as the first call: no
\* placeholder counter and no accumulator outlasts a call.
C12_CallsIndependent ==
  (pc = "idle" /\ calls # <<>>) => result = FirstCall

C12_Witness ==
  /\ pc = "idle"
  /\ calls = <<"return", "throw", "return">>
  /\ fn = "sqlForCompanySearch"
  /\ Len(result.values) = 3

\* C21: Job.update(id, {}) fails with BadRequestError at compile time,
\* before any statement is sent, for every id, stored or not; the store is
\* left unchanged.
C21_EmptyUpdateFailsBeforeStore ==
  [][(Calling("Job.update") /\ Len(request.data) = 0)
     => /\ out'.kind = "throw"
        /\ out'.err = BadRequestError(<<"No data">>)
        /\ out'.stmts = <<>>
        /\ jobs' = jobs]_vars

C21_Witness ==
  /\ Done("Job.update")
  /\ Len(request.data) = 0
  /\ RowsWithId(jobs, request.id) # {}
  /\ out.err.name = "BadRequestError"

(***************************************************************************)
(* The predicate rules of src/helpers/sql.js called on their own, as       *)
(* src/helpers/sql.test.js calls them, with a cursor.                      *)
(***************************************************************************)
MaxCursor == 2

RuleTerms == {Undefined, Str(""), Str("net"), Str("c"), Num(1)}

\* { minEmployees, maxEmployees } as sqlForCompanySearch builds it, a key
\* being undefined when absent, and the objects the tests pass
RuleConditions ==
  {<<Entry("minEmployees", a), Entry("maxEmployees", b)>> :
     a \in Nums \cup {Undefined}, b \in Nums \cup {Undefined}}
    \cup {<<Entry("minEmployees", a)>> : a \in Nums}
    \cup {<<Entry("maxEmployees", b)>> : b \in Nums}
    \cup {<<>>}

InitRules ==
  /\ pc = "called"
  /\ result = Pending
  /\ dataToUpdate = <<>>
  /\ jsToSql = <<>>
  /\ queryParams = <<>>
  /\ frame = NoFrame
  /\ calls = <<>>
  /\ jobs = {}
  /\ users = {}
  /\ request = NoRequest
  /\ out = NoOut
  /\ procs = <<>>
  /\ argIdx \in 0..MaxCursor
  /\ \/ /\ fn = "_sqlForCompanySearchByName"
        /\ argTerm \in RuleTerms
        /\ argConditions = <<>>
     \/ /\ fn = "_sqlForCompanySearchByNumEmps"
        /\ argConditions \in RuleConditions
        /\ argTerm = Undefined

CallSqlForCompanySearchByName ==
  /\ pc = "called"
  /\ fn = "_sqlForCompanySearchByName"
  /\ result' = _sqlForCompanySearchByName(argTerm, argIdx)
  /\ pc' = "done"
  /\ UNCHANGED <<fn, dataToUpdate, jsToSql, queryParams, frame, calls, appVars,
                 ruleVars, procs>>

CallSqlForCompanySearchByNumEmps ==
  /\ pc = "called"
  /\ fn = "_sqlForCompanySearchByNumEmps"
  /\ result' = _sqlForCompanySearchByNumEmps(argConditions, argIdx)
  /\ pc' = "done"
  /\ UNCHANGED <<fn, dataToUpdate, jsToSql, queryParams, frame, calls, appVars,
                 ruleVars, procs>>

NextRules ==
  \/ CallSqlForCompanySearchByName
  \/ CallSqlForCompanySearchByNumEmps

SpecRules == InitRules /\ [][NextRules]_vars

(***************************************************************************)
(* Properties of the predicate rules (SpecRules).                          *)
(***************************************************************************)
ByNameDone == pc = "done" /\ fn = "_sqlForCompanySearchByName"
ByNumEmpsDone == pc = "done" /\ fn = "_sqlForCompanySearchByNumEmps"
ArgMin == Get(argConditions, "minEmployees")
ArgMax == Get(argConditions, "maxEmployees")
AtLeast(i) == "num_employees >= $" \o ToString(i)
AtMost(i) == "num_employees <= $" \o ToString(i)

\* C22: with cursor k and a valid range the range rule emits, for min alone,
\* "num_employees >= $(k+1)"; for max alone, "num_employees <= $(k+1)"; for
\* both, ">= $(k+1)" then "<= $(k+2)", values in that order; the name rule
\* emits "name ILIKE $(k+1)" bound to "%term%".
C22_RuleFragments ==
  /\ (ByNumEmpsDone /\ ~JsGreater(ArgMin, ArgMax)) =>
       /\ (ArgMin # Undefined /\ ArgMax = Undefined)
            => result = ReturnTemp(<<AtLeast(argIdx + 1)>>, <<ArgMin>>)
       /\ (ArgMin = Undefined /\ ArgMax # Undefined)
            => result = ReturnTemp(<<AtMost(argIdx + 1)>>, <<ArgMax>>)
       /\ (ArgMin # Undefined /\ ArgMax # Undefined)
            => result = ReturnTemp(<<AtLeast(argIdx + 1), AtMost(argIdx + 2)>>,
                                   <<ArgMin, ArgMax>>)
  /\ (ByNameDone /\ argTerm # Undefined /\ argTerm # Str("")) =>
       result = ReturnTemp(<<"name ILIKE $" \o ToString(argIdx + 1)>>,
                           <<Str("%" \o TemplateString(argTerm) \o "%")>>)

C22_Witness ==
  /\ ByNumEmpsDone
  /\ argIdx = 2
  /\ ArgMin = Num(0) /\ ArgMax = Num(1)
  /\ result.colsTemp = <<"num_employees >= $3", "num_employees <= $4">>

\* C23: a rule invoked without any of its required keys fails: the range
\* rule with minEmployees and maxEmployees both absent, and the name rule
\* with an undefined term, raise BadRequestError for every cursor and return
\* no fragment.
C23_MissingKeysFail ==
  ((ByNumEmpsDone /\ ArgMin = Undefined /\ ArgMax = Undefined)
     \/ (ByNameDone /\ argTerm = Undefined))
  => /\ result.kind = "throw"
     /\ result.err.name = "BadRequestError"
     /\ result.colsTemp = <<>>
     /\ result.valuesTemp = <<>>

C23_Witness ==
  /\ ByNameDone
  /\ argTerm = Undefined
  /\ argIdx = 1
  /\ result.kind = "throw"

\* C24: every validation failure of the compilers carries a message that
\* names the dimension and the constraint violated, so that the failure
\* kinds differ for the caller.
C24_FailuresIdentified ==
  (pc = "done" /\ result.kind = "throw") =>
    /\ result.err.name = "BadRequestError"
    /\ Len(result.err.args) > 0
    /\ result.err.args[1] # ""

(***************************************************************************)
(* Calls running at once: several requests, each inside one builder of     *)
(* src/helpers/sql.js, taking their statements in any interleaving.        *)
(***************************************************************************)
NumProcs == 2

Proc(f, data, table, params) ==
  [fn |-> f, dataToUpdate |-> data, jsToSql |-> table, queryParams |-> params,
   pc |-> "entry", frame |-> NoFrame, result |-> Pending]

ProcCalls ==
  {Proc("sqlForPartialUpdate", d, <<>>, <<>>) :
     d \in {<<>>, <<Entry("title", Str("x"))>>}}
    \cup {Proc("sqlForCompanySearch", <<>>, <<>>, q) :
            q \in {<<Entry("nameLike", Str(""))>>,
                   <<Entry("maxEmployees", Num(1))>>,
                   <<Entry("nameLike", Str("net")),
                     Entry("minEmployees", Num(0)),
                     Entry("maxEmployees", Num(1))>>}}
    \cup {Proc("sqlForJobSearch", <<>>, <<>>, q) :
            q \in {<<Entry("hasEquity", Bool(FALSE))>>,
                   <<Entry("title", Str("j")), Entry("minSalary", Num(1)),
                     Entry("hasEquity", Bool(TRUE))>>}}

InitProcs ==
  /\ pc = "called"
  /\ fn = ""
  /\ result = Pending
  /\ dataToUpdate = <<>>
  /\ jsToSql = <<>>
  /\ queryParams = <<>>
  /\ frame = NoFrame
  /\ calls = <<>>
  /\ jobs = {}
  /\ users = {}
  /\ request = NoRequest
  /\ out = NoOut
  /\ argTerm = Undefined
  /\ argConditions = <<>>
  /\ argIdx = 0
  /\ procs \in [1..NumProcs -> ProcCalls]

\* variant: cols and values are one pair shared by all calls
WithFrame_shared(ps, p, fr) == [q \in DOMAIN ps |-> [ps[q] EXCEPT !.frame = fr]]

\* cols = ...; values = ...: the assignment is to the variables of call p
WithFrame(ps, p, fr) == [ps EXCEPT ![p].frame = fr]

\* call p goes on at statement next
GoesOn(ps, p, next) == [ps EXCEPT ![p].pc = next]

\* call p ends with outcome r
Ends(ps, p, r) == [ps EXCEPT ![p].pc = "done", ![p].result = r]

ProcEnter ==
  \E p \in DOMAIN procs :
    /\ procs[p].pc = "entry"
    /\ procs' =
         IF procs[p].fn = "sqlForPartialUpdate" THEN GoesOn(procs, p, "keys")
         ELSE GoesOn(WithFrame(procs, p, NewFrame(procs[p].frame)), p,
                     IF procs[p].fn = "sqlForCompanySearch" THEN "nameLike"
                     ELSE "title")
    /\ UNCHANGED <<fn, pc, builderVars, appVars, ruleVars>>

ProcPartialUpdate ==
  \E p \in DOMAIN procs :
    /\ procs[p].pc = "keys"
    /\ procs' = Ends(procs, p,
                     sqlForPartialUpdate(procs[p].dataToUpdate,
                                         procs[p].jsToSql))
    /\ UNCHANGED <<fn, pc, builderVars, appVars, ruleVars>>

ProcCompanyByName ==
  \E p \in DOMAIN procs :
    /\ procs[p].pc = "nameLike"
    /\ LET nameLike == Get(procs[p].queryParams, "nameLike")
           fr == procs[p].frame
           byName == IF nameLike # Undefined
                       THEN _sqlForCompanySearchByName(nameLike,
                                                       Len(fr.values))
                       ELSE ReturnTemp(<<>>, <<>>)
       IN procs' =
            IF byName.kind = "throw" THEN Ends(procs, p, Throw(byName.err))
            ELSE GoesOn(WithFrame(procs, p,
                                  [cols |-> fr.cols \o byName.colsTemp,
                                   values |-> fr.values \o byName.valuesTemp]),
                        p, "numEmps")
    /\ UNCHANGED <<fn, pc, builderVars, appVars, ruleVars>>

ProcCompanyByNumEmps ==
  \E p \in DOMAIN procs :
    /\ procs[p].pc = "numEmps"
    /\ LET minEmployees == Get(procs[p].queryParams, "minEmployees")
           maxEmployees == Get(procs[p].queryParams, "maxEmployees")
           fr == procs[p].frame
           byNumEmps ==
             IF minEmployees # Undefined \/ maxEmployees # Undefined
               THEN _sqlForCompanySearchByNumEmps(
                      <<Entry("minEmployees", minEmployees),
                        Entry("maxEmployees", maxEmployees)>>,
                      Len(fr.values))
               ELSE ReturnTemp(<<>>, <<>>)
           cols == fr.cols \o byNumEmps.colsTemp
           values == fr.values \o byNumEmps.valuesTemp
       IN procs' =
            IF byNumEmps.kind = "throw"
              THEN Ends(procs, p, Throw(byNumEmps.err))
            ELSE Ends(WithFrame(procs, p, [cols |-> cols, values |-> values]),
                      p, Return(Join(cols, " AND "), values))
    /\ UNCHANGED <<fn, pc, builderVars, appVars, ruleVars>>

ProcJobByTitle ==
  \E p \in DOMAIN procs :
    /\ procs[p].pc = "title"
    /\ LET title == Get(procs[p].queryParams, "title")
       IN procs' =
            GoesOn(WithFrame(procs, p,
                             Pushed(procs[p].frame, title # Undefined,
                                    "title ILIKE $",
                                    Str("%" \o TemplateString(title) \o "%"))),
                   p, "minSalary")
    /\ UNCHANGED <<fn, pc, builderVars, appVars, ruleVars>>

ProcJobByMinSalary ==
  \E p \in DOMAIN procs :
    /\ procs[p].pc = "minSalary"
    /\ LET minSalary == Get(procs[p].queryParams, "minSalary")
       IN procs' =
            GoesOn(WithFrame(procs, p,
                             Pushed(procs[p].frame, minSalary # Undefined,
                                    "salary >= $", minSalary)),
                   p, "hasEquity")
    /\ UNCHANGED <<fn, pc, builderVars, appVars, ruleVars>>

ProcJobByHasEquity ==
  \E p \in DOMAIN procs :
    /\ procs[p].pc = "hasEquity"
    /\ LET hasEquity == Get(procs[p].queryParams, "hasEquity")
           fr1 == Pushed(procs[p].frame,
                         hasEquity # Undefined /\ hasEquity = Bool(TRUE),
                         "equity > $", Num(0))
           fr2 == Pushed(fr1,
                         hasEquity # Undefined /\ hasEquity = Bool(FALSE),
                         "equity = $", Num(0))
       IN procs' = Ends(WithFrame(procs, p, fr2), p,
                        Return(Join(fr2.cols, " AND "), fr2.values))
    /\ UNCHANGED <<fn, pc, builderVars, appVars, ruleVars>>

NextProcs ==
  \/ ProcEnter
  \/ ProcPartialUpdate
  \/ ProcCompanyByName
  \/ ProcCompanyByNumEmps
  \/ ProcJobByTitle
  \/ ProcJobByMinSalary
  \/ ProcJobByHasEquity

SpecProcs == InitProcs /\ [][NextProcs]_vars

\* what the call of process record c returns when it runs alone
Alone(c) ==
  CASE c.fn = "sqlForPartialUpdate" ->
         sqlForPartialUpdate(c.dataToUpdate, c.jsToSql)
    [] c.fn = "sqlForCompanySearch" -> sqlForCompanySearch(c.queryParams)
    [] c.fn = "sqlForJobSearch" -> sqlForJobSearch(c.queryParams)

\* C25: however the statements of two or more compile calls interleave, each
\* call returns what it returns when run alone: no call reads or writes the
\* cursor or the accumulators of another.
C25_InterleavingIrrelevant ==
  \A p \in DOMAIN procs :
    procs[p].pc = "done" => procs[p].result = Alone(procs[p])

C25_Witness ==
  /\ procs # <<>>
  /\ procs[1].pc = "done"
  /\ procs[1].fn = "sqlForCompanySearch"
  /\ Len(procs[1].result.values) = 3
  /\ procs[2].pc = "hasEquity"
  /\ Len(procs[2].frame.values) = 2

\* C26: sqlForPartialUpdate, sqlForCompanySearch and sqlForJobSearch leave
\* dataToUpdate, jsToSql and queryParams as they were, when they return and
\* when they throw.
C26_InputsUnchanged ==
  [][(pc = "called" /\ pc' = "done"
        /\ fn \in {"sqlForPartialUpdate", "sqlForCompanySearch",
                   "sqlForJobSearch"})
     => /\ dataToUpdate' = dataToUpdate
        /\ jsToSql' = jsToSql
        /\ queryParams' = queryParams]_vars

C26_Witness ==
  /\ pc = "done"
  /\ fn = "sqlForCompanySearch"
  /\ result.kind = "throw"
  /\ Len(queryParams) = 2
  /\ HasKey(queryParams, "minEmployees")

\* C27: an admin POST /jobs with a valid body { title, salary, equity,
\* companyHandle } stores the handle given as companyHandle for the new job
\* and returns it as job.companyHandle with status 201.
C27_HandleStoredAndReturned ==
  (/\ Done("POST /jobs")
   /\ request.user.loggedIn /\ request.user.isAdmin
   /\ ValidJobNew(request.data))
  => /\ out.status = 201
     /\ Len(out.rows) = 1
     /\ out.rows[1].companyHandle = Get(request.data, "companyHandle")
     /\ \E r \in jobs :
          /\ r.id = out.rows[1].id
          /\ r.company_handle = Get(request.data, "companyHandle")

\* C28: a logged-in caller who is neither an admin nor the user named in the
\* path is rejected on GET, PATCH and DELETE /users/:username with
\* UnauthorizedError, the error an anonymous caller gets.
C28_StrangerIsUnauthorized ==
  (/\ pc = "done"
   /\ fn \in UserRoutes
   /\ request.user.loggedIn
   /\ ~request.user.isAdmin
   /\ request.user.username # request.username)
  => /\ out.kind = "throw"
     /\ out.err.name = "UnauthorizedError"
     /\ out.status = 401

(***************************************************************************)
(* Further properties of the builders (Spec).                              *)
(***************************************************************************)
\* some placeholder i of the returned search clause belongs to a fragment
\* with text sql and is bound to v
EmitsBound(T, sql, v) ==
  LET n == Len(result.values)
  IN \E f \in [1..n -> T] :
       /\ result.text = Join([i \in 1..n |-> f[i].sql \o ToString(i)], " AND ")
       /\ \E i \in 1..n : f[i].sql = sql /\ result.values[i] = v

\* C29: presence, not truthiness, decides: sqlForPartialUpdate emits the
\* fragment and binds the value of every key, be the value null, 0, false
\* or ""; the search builders emit the range fragment when minEmployees,
\* maxEmployees or minSalary is 0.
C29_PresenceDecides ==
  /\ (UpdateDone /\ Len(dataToUpdate) > 0) =>
       \A i \in 1..Len(dataToUpdate) :
         ~Truthy(dataToUpdate[i].v) =>
           /\ result.kind = "return"
           /\ Len(result.values) = Len(dataToUpdate)
           /\ result.values[i] = dataToUpdate[i].v
           /\ \E c \in [1..Len(dataToUpdate) -> ColumnNames] :
                result.text =
                  Join([j \in 1..Len(dataToUpdate) |-> SetFragment(c[j], j)],
                       ", ")
  /\ (CompanyDone /\ result.kind = "return") =>
       /\ Get(queryParams, "minEmployees") = Num(0)
            => EmitsBound(CompanyTemplates(queryParams),
                          "num_employees >= $", Num(0))
       /\ Get(queryParams, "maxEmployees") = Num(0)
            => EmitsBound(CompanyTemplates(queryParams),
                          "num_employees <= $", Num(0))
  /\ (JobDone /\ Get(queryParams, "minSalary") = Num(0)) =>
       /\ result.kind = "return"
       /\ EmitsBound(JobTemplates(queryParams), "salary >= $", Num(0))

C29_Witness ==
  /\ CompanyDone
  /\ Get(queryParams, "minEmployees") = Num(0)
  /\ Get(queryParams, "maxEmployees") = Num(0)
  /\ result.kind = "return"
  /\ Len(result.values) = 2

\* C30: minEmployees = maxEmployees is accepted: the inverted-range error is
\* raised only when min is strictly greater than max; for min = max the >=
\* and the <= fragment are both emitted with consecutive placeholders; with
\* one bound alone the inverted-range error is never raised.
C30_EqualBoundsAccepted ==
  CompanyDone =>
    LET min == Get(queryParams, "minEmployees")
        max == Get(queryParams, "maxEmployees")
        nameLike == Get(queryParams, "nameLike")
        k == IF nameLike = Undefined THEN 0 ELSE 1
        pre == IF nameLike = Undefined THEN <<>> ELSE <<"name ILIKE $1">>
        preBinds == IF nameLike = Undefined THEN <<>>
                    ELSE <<Str("%" \o TemplateString(nameLike) \o "%")>>
    IN /\ result.err = InvertedRangeError
            => min.t = "number" /\ max.t = "number" /\ min.n > max.n
       /\ (min = Undefined \/ max = Undefined)
            => result.err # InvertedRangeError
       /\ (min.t = "number" /\ min = max /\ nameLike # Str(""))
            => /\ result.kind = "return"
               /\ result.text =
                    Join(pre \o <<AtLeast(k + 1), AtMost(k + 2)>>, " AND ")
               /\ result.values = preBinds \o <<min, max>>

C30_Witness ==
  /\ CompanyDone
  /\ Get(queryParams, "nameLike") = Str("net")
  /\ Get(queryParams, "minEmployees") = Num(1)
  /\ Get(queryParams, "maxEmployees") = Num(1)
  /\ result.kind = "return"
  /\ Len(result.values) = 3

====
